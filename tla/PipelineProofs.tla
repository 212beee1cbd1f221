--------------------------- MODULE PipelineProofs ---------------------------
(***************************************************************************)
(* Proofs about Pipeline for every listing, every number of workers, every *)
(* channel, micro-batch and upsert size and every concurrency strategy.    *)
(* Streaming is the inductive invariant about chunks: it follows one from  *)
(* the worker that sent it, through the result channel, the pending slice  *)
(* and the batch, into the store.  Counted is the one about files.         *)
(***************************************************************************)
EXTENDS Pipeline, SequenceTheorems, WellFoundedInduction, FiniteSetTheorems, TLAPS

USE SizesAssumption, StrategyAssumption, ListingAssumption

----------------------------------------------------------------------------
(* Numbers *)

\* Every non-empty set of naturals has a least element.
LEMMA LeastNat ==
  ASSUME NEW S, S \subseteq Nat, S # {}
  PROVE  \E n \in S : \A m \in S : n <= m
<1>1. IsWellFoundedOn(OpToRel(<, Nat), Nat)
  BY NatLessThanWellFounded
<1>2. PICK n \in S : \A y \in S : ~(<<y, n>> \in OpToRel(<, Nat))
  BY <1>1, WFMin
<1>3. \A y \in S : ~(y < n)
  BY <1>2 DEF OpToRel
<1> QED
  BY <1>3

\* A strategy never answers less than one worker nor more than its ceiling,
\* so the worker with index 0 is never gated.
LEMMA CurrentWorkersBounds ==
  ASSUME NEW s \in Strategies, NEW mb \in Nat
  PROVE  CurrentWorkers(s, mb) \in 1..s.max
<1>1. /\ s.max \in Nat \ {0} /\ s.low \in Nat /\ s.high \in Nat
      /\ s.high - s.low \in Nat \ {0}
  BY DEF Strategies
<1>2. ASSUME NEW n \in Int, NEW d \in Nat \ {0} PROVE Rounded(n, d) \in Int
  <2>1. 2 * n + d \in Int /\ 2 * d \in Int /\ 2 * d > 0
    OBVIOUS
  <2> QED
    BY <2>1 DEF Rounded
<1>3. (mb - s.low) * (s.max - 1) \in Int
  <2>1. mb - s.low \in Int /\ s.max - 1 \in Int
    BY <1>1
  <2>2. \A a, b \in Int : a * b \in Int
    OBVIOUS
  <2> QED
    BY <2>1, <2>2
<1>4. Scaled(s, mb) \in Int
  <2>1. Rounded((mb - s.low) * (s.max - 1), s.high - s.low) \in Int
    BY <1>1, <1>2, <1>3
  <2> QED
    BY <2>1 DEF Scaled
<1>5. \A x \in Int : Clamped(x, 1, s.max) \in 1..s.max
  BY <1>1 DEF Clamped, Larger, Smaller
<1>6. 1 \in 1..s.max /\ s.max \in 1..s.max
  BY <1>1
<1>7. Clamped(Scaled(s, mb), 1, s.max) \in 1..s.max
  BY <1>4, <1>5, Zenon
<1> QED
  BY <1>6, <1>7, Zenon DEF CurrentWorkers, WorkersFor

\* The channels have room for at least one message.
LEMMA CapPositive == Cap \in Nat /\ Cap >= 1
<1>1. Larger(ConfigWorkers, 1) \in Nat /\ Larger(ConfigWorkers, 1) >= 1
  BY DEF Larger
<1> DEFINE m == Larger(ConfigWorkers, 1)
<1>2. m * CapPerWorker \in Nat /\ m * CapPerWorker >= 1
  <2> HIDE DEF m
  <2>1. m \in Nat /\ m >= 1 /\ CapPerWorker \in Nat /\ CapPerWorker >= 1
    BY <1>1 DEF m
  <2> QED
    BY <2>1
<1> QED
  BY <1>2 DEF Cap

----------------------------------------------------------------------------
(* Documents and upserts *)

\* The document built for a chunk of an item is well formed.
LEMMA DocOfType ==
  ASSUME NEW i \in Items, NEW k \in DOMAIN Chunks[i]
  PROVE  DocOf(i, k) \in Docs /\ DocOf(i, k).id = Chunks[i][k]
<1>1. Path[i] \in Sources /\ RevOf(i) \in Revs
  BY DEF Sources, Revs
<1>2. Chunks[i][k] \in Ids
  OBVIOUS
<1> QED
  BY <1>1, <1>2 DEF DocOf, Docs

\* dedup_by_id finds a first document for every id of the batch.
LEMMA FirstDocExists ==
  ASSUME NEW docs \in Seq(Docs), NEW c \in IdsOf(docs)
  PROVE  FirstDoc(docs, c) \in Docs /\ FirstDoc(docs, c).id = c
<1> DEFINE S == {n \in DOMAIN docs : docs[n].id = c}
<1>1. S \subseteq Nat /\ S # {}
  BY DEF IdsOf
<1>2. PICK n \in S : \A m \in S : n <= m
  BY <1>1, LeastNat
<1>3. n \in DOMAIN docs /\ docs[n].id = c /\ \A m \in 1..(n - 1) : docs[m].id # c
  <2>1. n \in DOMAIN docs /\ docs[n].id = c
    OBVIOUS
  <2>2. ASSUME NEW m \in 1..(n - 1), docs[m].id = c
        PROVE  FALSE
    <3>1. m \in S
      BY <2>1, <2>2
    <3> QED
      BY <3>1, <1>2, <1>1
  <2> QED
    BY <2>1, <2>2
<1> QED
  BY <1>3 DEF FirstDoc

\* An upsert keeps the store well typed, gives every id it writes a row, and
\* leaves every other row as it was.
LEMMA UpsertedRows ==
  ASSUME NEW rows \in [Ids -> Rows], NEW docs \in Seq(Docs),
         NEW ids, ids \subseteq IdsOf(docs)
  PROVE  /\ Upserted(rows, docs, ids) \in [Ids -> Rows]
         /\ \A c \in Ids : c \in ids => Upserted(rows, docs, ids)[c] # NoRow
         /\ \A c \in Ids : rows[c] # NoRow => Upserted(rows, docs, ids)[c] # NoRow
<1>1. ASSUME NEW c \in Ids, c \in ids
      PROVE  LET d == FirstDoc(docs, c)
             IN  [src |-> d.src, rev |-> d.rev] \in [src : Sources, rev : Revs]
  <2>1. FirstDoc(docs, c) \in Docs
    BY <1>1, FirstDocExists
  <2> QED
    BY <2>1 DEF Docs
<1>2. \A c \in Ids : c \in ids => Upserted(rows, docs, ids)[c] # NoRow
                                  /\ Upserted(rows, docs, ids)[c] \in Rows
  BY <1>1 DEF Upserted, Rows
<1>3. \A c \in Ids : c \notin ids => Upserted(rows, docs, ids)[c] = rows[c]
  BY DEF Upserted
<1>4. Upserted(rows, docs, ids) \in [Ids -> Rows]
  BY <1>2, <1>3 DEF Upserted
<1> QED
  BY <1>2, <1>3, <1>4

----------------------------------------------------------------------------
(* Type correctness.  TypeOK alone is not inductive: that the documents    *)
(* pushed to the batch are well formed needs SlicesFit.                    *)

Typed == TypeOK /\ SlicesFit

\* The types hold at first.
LEMMA TypedInit == Init => Typed
<1> SUFFICES ASSUME Init PROVE Typed
  OBVIOUS
<1> USE CapPositive DEF Init
<1>1. \E s \in Starts : known = s.known /\ store \in [Ids -> Rows]
  OBVIOUS
<1>2. /\ work \in Seq(Items) /\ results \in Seq(WorkResults) /\ batch \in Seq(Docs)
      /\ Len(work) = 0 /\ Len(results) = 0 /\ Len(batch) = 0
  OBVIOUS
<1>3. pending \in Slices
  BY DEF Slices
<1>4. /\ wpc \in [Workers -> {"off", "gate", "lock", "recv", "parse", "embed",
                             "send", "final", "exit", "panic"}]
      /\ witem \in [Workers -> 0..NItems] /\ wsent \in [Workers -> Nat]
      /\ wsize \in [Workers -> {MicroBatch, LowMicroBatch}]
  <2>1. 0 \in 0..NItems
    OBVIOUS
  <2> QED
    BY <2>1
<1>5. 0 <= Cap /\ 0 < Larger(UploadBatchSize, 1)
  BY DEF Larger
<1>6. TypeOK
  BY <1>1, <1>2, <1>3, <1>4, <1>5 DEF TypeOK
<1>7. SlicesFit
  BY DEF SlicesFit, NothingPending
<1> QED
  BY <1>6, <1>7 DEF Typed

\* Setting a run up keeps the types.
LEMMA TypedSetup == Typed /\ Setup => Typed'
<1> SUFFICES ASSUME Typed, Setup PROVE Typed'
  OBVIOUS
<1> USE DEF Typed, TypeOK, SlicesFit, NothingPending, coordVars, feedVars,
            localVars, outcomeVars
<1>1. CASE DetectChanges
  BY <1>1 DEF DetectChanges, ToProcess
<1>2. CASE SetupFails
  BY <1>2 DEF SetupFails
<1>3. ASSUME NEW S PROVE WithoutSources(store, S) \in [Ids -> Rows]
  BY DEF WithoutSources, Rows
<1>4. CASE DeleteRemoved
  <2>1. store' \in [Ids -> Rows]
    BY <1>3, <1>4 DEF DeleteRemoved
  <2>2. CASE todo = {}
    BY <1>4, <2>1, <2>2 DEF DeleteRemoved
  <2>3. CASE todo # {}
    BY <1>4, <2>1, <2>3 DEF DeleteRemoved
  <2> QED
    BY <2>2, <2>3
<1>5. CASE DeleteFails
  <2>1. store' \in [Ids -> Rows]
    BY <1>3, <1>5 DEF DeleteFails
  <2> QED
    BY <1>5, <2>1 DEF DeleteFails
<1> QED
  BY <1>1, <1>2, <1>4, <1>5 DEF Setup

\* Feeding keeps the work channel within its capacity.
LEMMA TypedFeeding == Typed /\ Feeding => Typed'
<1> SUFFICES ASSUME Typed, Feeding PROVE Typed'
  OBVIOUS
<1> USE DEF Typed, TypeOK, SlicesFit, NothingPending, coordVars, feedVars,
            localVars, outcomeVars
<1>1. CASE Feed
  <2>1. work' \in Seq(Items) /\ Len(work') <= Cap
    BY <1>1, CapPositive DEF Feed
  <2> QED
    BY <1>1, <2>1 DEF Feed
<1>2. CASE FeederDone
  BY <1>2 DEF FeederDone
<1>3. CASE CloseWork
  BY <1>3 DEF CloseWork
<1> QED
  BY <1>1, <1>2, <1>3 DEF Feeding

\* One more result in the channel.
LEMMA OneMoreResult ==
  ASSUME Typed, Len(results) < Cap, NEW r \in WorkResults,
         r.upto <= Len(Chunks[r.item]), results' = Append(results, r)
  PROVE  /\ results' \in Seq(WorkResults) /\ Len(results') <= Cap
         /\ \A p \in DOMAIN results' :
              results'[p].upto <= Len(Chunks[results'[p].item])
<1>1. results \in Seq(WorkResults) /\ Len(results) \in Nat
  BY DEF Typed, TypeOK
<1>2. Append(results, r) \in Seq(WorkResults) /\ Len(Append(results, r)) = Len(results) + 1
  BY <1>1
<1>3. Len(results') <= Cap
  BY <1>1, <1>2, CapPositive
<1>4. ASSUME NEW p \in DOMAIN results'
      PROVE  results'[p].upto <= Len(Chunks[results'[p].item])
  <2>1. CASE p = Len(results) + 1
    BY <1>1, <2>1
  <2>2. CASE p # Len(results) + 1
    <3>1. p \in DOMAIN results /\ results'[p] = results[p]
      BY <1>1, <1>2, <2>2
    <3> QED
      BY <3>1 DEF Typed, SlicesFit
  <2> QED
    BY <2>1, <2>2
<1> QED
  BY <1>2, <1>3, <1>4

\* A worker keeps its slice within its file, and the result channel bounded.
LEMMA TypedWorker == ASSUME NEW w \in Workers, Typed, Worker(w) PROVE Typed'
<1> USE DEF Typed, TypeOK, SlicesFit, NothingPending, coordVars, feedVars,
            localVars, outcomeVars
<1>1. CASE Gate(w)
  BY <1>1 DEF Gate
<1>w. CASE Wake(w)
  BY <1>w DEF Wake
<1>2. CASE Lock(w)
  BY <1>2 DEF Lock
<1>3. CASE Recv(w)
  <2>1. Head(work) \in Items /\ Tail(work) \in Seq(Items) /\ Len(Tail(work)) <= Cap
    BY <1>3, CapPositive DEF Recv
  <2>2. 0 <= Len(Chunks[Head(work)])
    BY <2>1
  <2>3. witem' \in [Workers -> 0..NItems] /\ wsent' \in [Workers -> Nat]
    <3>1. Head(work) \in 0..NItems
      BY <2>1 DEF Items
    <3> QED
      BY <1>3, <3>1 DEF Recv
  <2>4. TypeOK'
    BY <1>3, <2>1, <2>3 DEF Recv
  <2>5. ASSUME NEW v \in Workers, wpc'[v] \in {"parse", "embed", "send", "final"}
        PROVE  witem'[v] \in Items /\ wsent'[v] <= Len(Chunks[witem'[v]])
    <3>1. CASE v = w
      BY <1>3, <2>1, <2>2, <3>1 DEF Recv
    <3>2. CASE v # w
      BY <1>3, <2>5, <3>2 DEF Recv
    <3> QED
      BY <3>1, <3>2
  <2> QED
    BY <1>3, <2>4, <2>5 DEF Recv
<1>4. CASE RecvNone(w)
  BY <1>4 DEF RecvNone
<1>5. CASE ParseOk(w)
  BY <1>5 DEF ParseOk
<1>6. CASE ChunkerRejects(w)
  BY <1>6 DEF ChunkerRejects
<1>7. CASE ReadFails(w)
  BY <1>7 DEF ReadFails, GiveUp
<1>8. CASE EmbedOk(w)
  BY <1>8 DEF EmbedOk
<1>9. CASE EmbedFails(w)
  BY <1>9 DEF EmbedFails, GiveUp
<1>10. CASE Panics(w)
  BY <1>10 DEF Panics
<1>11. CASE Send(w)
  <2> DEFINE e == MicroBatchEnd(w)
             r == [item |-> witem[w], from |-> wsent[w], upto |-> e,
                   is_final |-> FALSE]
  <2>1. e \in Nat /\ e <= Len(Chunks[witem[w]])
    <3>1. witem[w] \in Items /\ wsent[w] \in Nat /\ wsize[w] \in Nat
      BY <1>11 DEF Send
    <3>2. Len(Chunks[witem[w]]) \in Nat
      BY <3>1
    <3> QED
      BY <3>1, <3>2 DEF MicroBatchEnd, Smaller
  <2>2. r \in WorkResults /\ r.upto = e /\ r.item = witem[w]
    BY <1>11, <2>1 DEF Send, WorkResults
  <2> HIDE DEF r, e
  <2>3. results' = Append(results, r)
    BY <1>11 DEF Send, r, e
  <2>5. /\ results' \in Seq(WorkResults) /\ Len(results') <= Cap
        /\ \A p \in DOMAIN results' :
             results'[p].upto <= Len(Chunks[results'[p].item])
    <3>1. Len(results) < Cap
      BY <1>11 DEF Send
    <3>2. r.upto <= Len(Chunks[r.item])
      BY <2>1, <2>2
    <3> HIDE DEF Typed, TypeOK, SlicesFit
    <3> QED
      BY <2>2, <2>3, <3>1, <3>2, OneMoreResult
  <2>4. TypeOK'
    BY <1>11, <2>1, <2>5 DEF Send, e
  <2>6. \A v \in Workers : wpc'[v] \in {"parse", "embed", "send", "final"} =>
          witem'[v] \in Items /\ wsent'[v] <= Len(Chunks[witem'[v]])
    BY <1>11, <2>1 DEF Send, e
  <2> QED
    BY <1>11, <2>4, <2>5, <2>6 DEF Send
<1>12. CASE SendFinal(w)
  <2> DEFINE r == [item |-> witem[w], from |-> wsent[w], upto |-> wsent[w],
                   is_final |-> TRUE]
  <2>1. r \in WorkResults /\ r.upto <= Len(Chunks[r.item])
    BY <1>12 DEF SendFinal, WorkResults
  <2> HIDE DEF r
  <2>2. results' = Append(results, r)
    BY <1>12 DEF SendFinal, r
  <2>4. /\ results' \in Seq(WorkResults) /\ Len(results') <= Cap
        /\ \A p \in DOMAIN results' :
             results'[p].upto <= Len(Chunks[results'[p].item])
    <3>1. Len(results) < Cap
      BY <1>12 DEF SendFinal
    <3> HIDE DEF Typed, TypeOK, SlicesFit
    <3> QED
      BY <2>1, <2>2, <3>1, OneMoreResult
  <2>3. TypeOK'
    BY <1>12, <2>4 DEF SendFinal
  <2>5. \A v \in Workers : wpc'[v] \in {"parse", "embed", "send", "final"} =>
          witem'[v] \in Items /\ wsent'[v] <= Len(Chunks[witem'[v]])
    BY <1>12 DEF SendFinal
  <2> QED
    BY <1>12, <2>3, <2>4, <2>5 DEF SendFinal
<1>13. CASE SendFails(w)
  BY <1>13 DEF SendFails
<1> QED
  BY <1>1, <1>2, <1>3, <1>4, <1>5, <1>6, <1>7, <1>8, <1>9, <1>10, <1>11,
     <1>12, <1>13, <1>w DEF Worker

\* The documents of a batch with one more chunk are well formed.
LEMMA PushedType ==
  ASSUME Typed, ~NothingPending
  PROVE  /\ Pushed \in Seq(Docs) /\ Len(Pushed) = Len(batch) + 1
         /\ Advanced \in Slices
         /\ pending.item \in Items
         /\ pending.from + 1 \in DOMAIN Chunks[pending.item]
<1>1. /\ pending.item \in Items /\ pending.upto <= Len(Chunks[pending.item])
      /\ pending \in Slices /\ batch \in Seq(Docs)
  BY DEF Typed, TypeOK, SlicesFit
<1>2. pending.from + 1 \in DOMAIN Chunks[pending.item]
  BY <1>1 DEF NothingPending, Slices
<1>3. DocOf(pending.item, pending.from + 1) \in Docs
  BY <1>1, <1>2, DocOfType
<1>4. Advanced \in Slices
  <2>1. pending.from + 1 \in Nat
    BY <1>1 DEF Slices
  <2> QED
    BY <1>1, <2>1 DEF Advanced, Slices
<1> QED
  BY <1>1, <1>2, <1>3, <1>4 DEF Pushed

\* Collecting keeps the batch below its size.
LEMMA TypedCollect == Typed /\ Collect => Typed'
<1> SUFFICES ASSUME Typed, Collect PROVE Typed'
  OBVIOUS
<1> USE DEF coordVars, feedVars, localVars, outcomeVars
<1>1. CASE RecvResult
  <2>1. /\ Head(results) \in WorkResults /\ Tail(results) \in Seq(WorkResults)
        /\ Len(Tail(results)) <= Cap
        /\ Head(results).upto <= Len(Chunks[Head(results).item])
        /\ \A p \in DOMAIN Tail(results) : Tail(results)[p] = results[p + 1]
                                           /\ p + 1 \in DOMAIN results
    <3>1. /\ results \in Seq(WorkResults) /\ results # <<>> /\ Len(results) <= Cap
          /\ \A p \in DOMAIN results : results[p].upto <= Len(Chunks[results[p].item])
      BY <1>1 DEF RecvResult, Typed, TypeOK, SlicesFit
    <3>2. 1 \in DOMAIN results /\ Head(results) = results[1]
      BY <3>1
    <3>3. /\ Tail(results) \in Seq(WorkResults) /\ Len(Tail(results)) = Len(results) - 1
          /\ \A p \in DOMAIN Tail(results) : Tail(results)[p] = results[p + 1]
                                             /\ p + 1 \in DOMAIN results
      BY <3>1
    <3> QED
      BY <3>1, <3>2, <3>3, CapPositive
  <2>2. pending' \in Slices
    <3>1. /\ Head(results).item \in Items
          /\ Head(results).from \in Nat /\ Head(results).upto \in Nat
      <4> DEFINE h == Head(results)
      <4>1. h \in WorkResults
        BY <2>1
      <4> HIDE DEF h
      <4>2. h.item \in Items /\ h.from \in Nat /\ h.upto \in Nat
        BY <4>1 DEF WorkResults
      <4> QED
        BY <4>2 DEF h
    <3>2. pending' = [item |-> Head(results).item, from |-> Head(results).from,
                      upto |-> Head(results).upto]
      BY <1>1 DEF RecvResult
    <3> QED
      BY <3>1, <3>2 DEF Slices, Items
  <2>3. finished' \subseteq Items /\ done' \in Nat
    <3>1. Head(results).item \in Items
      BY <2>1 DEF WorkResults
    <3>2. finished \subseteq Items /\ done \in Nat /\ done + 1 \in Nat
      BY DEF Typed, TypeOK
    <3> QED
      BY <1>1, <3>1, <3>2 DEF RecvResult
  <2>4. TypeOK'
    BY <1>1, <2>1, <2>2, <2>3 DEF RecvResult, Typed, TypeOK
  <2>5. SlicesFit'
    BY <1>1, <2>1 DEF RecvResult, Typed, SlicesFit, WorkResults, NothingPending
  <2> QED
    BY <2>4, <2>5 DEF Typed
<1>2. CASE PushChunk
  <2>a. pending' \in Slices /\ batch' \in Seq(Docs)
    BY <1>2, PushedType DEF PushChunk
  <2>b. Len(batch') < Larger(UploadBatchSize, 1)
    BY <1>2, PushedType DEF PushChunk, Larger
  <2>1. TypeOK'
    BY <1>2, <2>a, <2>b DEF PushChunk, Typed, TypeOK
  <2>2. SlicesFit'
    BY <1>2, PushedType DEF PushChunk, Typed, SlicesFit, NothingPending, Advanced
  <2> QED
    BY <2>1, <2>2 DEF Typed
<1>3. CASE PushAndUpsert
  <2>1. store' \in [Ids -> Rows]
    BY <1>3, PushedType, UpsertedRows DEF PushAndUpsert, Typed, TypeOK
  <2>a. pending' \in Slices
    BY <1>3, PushedType DEF PushAndUpsert
  <2>b. batch' \in Seq(Docs) /\ Len(batch') < Larger(UploadBatchSize, 1)
    BY <1>3 DEF PushAndUpsert, Larger
  <2>2. TypeOK'
    BY <1>3, <2>1, <2>a, <2>b DEF PushAndUpsert, Typed, TypeOK
  <2>3. SlicesFit'
    BY <1>3, PushedType DEF PushAndUpsert, Typed, SlicesFit, NothingPending, Advanced
  <2> QED
    BY <2>2, <2>3 DEF Typed
<1>4. CASE PushUpsertFails
  <2>1. store' \in [Ids -> Rows]
    BY <1>4, PushedType, UpsertedRows DEF PushUpsertFails, Typed, TypeOK
  <2>2. batch' \in Seq(Docs) /\ Len(batch') < Larger(UploadBatchSize, 1)
    BY <1>4 DEF PushUpsertFails, Larger
  <2> QED
    BY <1>4, <2>1, <2>2 DEF PushUpsertFails, ResultsClosed, Typed, TypeOK, SlicesFit, NothingPending
<1>5. CASE FlushRest
  <2>1. store' \in [Ids -> Rows]
    BY <1>5, UpsertedRows DEF FlushRest, Typed, TypeOK
  <2>2. batch' \in Seq(Docs) /\ Len(batch') < Larger(UploadBatchSize, 1)
    BY <1>5 DEF FlushRest, Larger
  <2> QED
    BY <1>5, <2>1, <2>2 DEF FlushRest, ResultsClosed, Typed, TypeOK, SlicesFit, NothingPending
<1>6. CASE FlushRestFails
  <2>1. store' \in [Ids -> Rows]
    BY <1>6, UpsertedRows DEF FlushRestFails, Typed, TypeOK
  <2>2. batch' \in Seq(Docs) /\ Len(batch') < Larger(UploadBatchSize, 1)
    BY <1>6 DEF FlushRestFails, Larger
  <2> QED
    BY <1>6, <2>1, <2>2 DEF FlushRestFails, ResultsClosed, Typed, TypeOK, SlicesFit, NothingPending
<1>7. CASE Join
  BY <1>7 DEF Join, Typed, TypeOK, SlicesFit, NothingPending
<1> QED
  BY <1>1, <1>2, <1>3, <1>4, <1>5, <1>6, <1>7 DEF Collect

\* The types are inductive.
LEMMA TypedNext == Typed /\ [Next]_vars => Typed'
<1> SUFFICES ASSUME Typed, [Next]_vars PROVE Typed'
  OBVIOUS
<1>1. CASE UNCHANGED vars
  BY <1>1 DEF vars, Typed, TypeOK, SlicesFit, NothingPending, coordVars, feedVars,
              localVars, outcomeVars
<1> QED
  BY <1>1, TypedSetup, TypedFeeding, TypedWorker, TypedCollect DEF Next, Rest

\* run_pipeline's state stays well typed: work items, results and documents
\* are always those of listed files, the channels never exceed their capacity
\* and the batch never reaches upload_batch_size between two results.
THEOREM TypeCorrect == Spec => []TypeOK
<1>1. Typed => TypeOK
  BY DEF Typed
<1> QED
  BY <1>1, TypedInit, TypedNext, PTL DEF Spec

----------------------------------------------------------------------------
(* Streaming is inductive *)

\* What has arrived stays: when the store and the batch keep their ids, a
\* pending chunk stays pending or joins them, and the channel only grows.
LEMMA ArrivedKept ==
  ASSUME Typed,
         \A c \in Ids : InStoreOrBatch(c) => InStoreOrBatch(c)',
         \A i \in Items : \A k \in DOMAIN Chunks[i] : Holds(pending, i, k) =>
           Holds(pending', i, k) \/ InStoreOrBatch(Chunks[i][k])',
         \A q \in DOMAIN results : q \in DOMAIN results' /\ results'[q] = results[q],
         rejected \subseteq rejected'
  PROVE  \A i \in Items : \A n \in 0..Len(results) :
           /\ \A k \in DOMAIN Chunks[i] : Arrived(i, k, n) => Arrived(i, k, n)'
           /\ AllArrived(i, n) => AllArrived(i, n)'
<1> SUFFICES ASSUME NEW i \in Items, NEW n \in 0..Len(results)
             PROVE  /\ \A k \in DOMAIN Chunks[i] : Arrived(i, k, n) => Arrived(i, k, n)'
                    /\ AllArrived(i, n) => AllArrived(i, n)'
  OBVIOUS
<1>1. ASSUME NEW k \in DOMAIN Chunks[i], Arrived(i, k, n)
      PROVE  Arrived(i, k, n)'
  <2>1. Chunks[i][k] \in Ids
    OBVIOUS
  <2>2. CASE InStoreOrBatch(Chunks[i][k])
    BY <2>1, <2>2 DEF Arrived
  <2>3. CASE Holds(pending, i, k)
    BY <2>3 DEF Arrived
  <2>4. CASE \E q \in 1..n : Holds(results[q], i, k)
    <3>1. results \in Seq(WorkResults)
      BY DEF Typed, TypeOK
    <3>2. PICK q \in 1..n : Holds(results[q], i, k)
      BY <2>4
    <3>3. q \in DOMAIN results
      BY <3>1
    <3>4. Holds(results'[q], i, k)
      BY <3>2, <3>3
    <3> QED
      BY <3>4 DEF Arrived
  <2> QED
    BY <1>1, <2>2, <2>3, <2>4 DEF Arrived
<1>2. ASSUME AllArrived(i, n) PROVE AllArrived(i, n)'
  BY <1>1, <1>2 DEF AllArrived
<1> QED
  BY <1>1, <1>2

\* In particular when the step leaves the store, the batch, the pending slice
\* and the channel alone.
LEMMA ArrivedUnmoved ==
  ASSUME Typed, UNCHANGED <<store, batch, pending, results>>,
         rejected \subseteq rejected'
  PROVE  \A i \in Items : \A n \in 0..Len(results) :
           /\ \A k \in DOMAIN Chunks[i] : Arrived(i, k, n) => Arrived(i, k, n)'
           /\ AllArrived(i, n) => AllArrived(i, n)'
<1>1. \A c \in Ids : InStoreOrBatch(c) => InStoreOrBatch(c)'
  BY DEF InStoreOrBatch, IdsOf
<1>2. \A q \in DOMAIN results : q \in DOMAIN results' /\ results'[q] = results[q]
  OBVIOUS
<1>3. \A i \in Items : \A k \in DOMAIN Chunks[i] : Holds(pending, i, k) =>
        Holds(pending', i, k)
  OBVIOUS
<1> QED
  BY <1>1, <1>2, <1>3, ArrivedKept

\* Nothing is under way at first.
LEMMA StreamingInit == Init => Streaming
<1> SUFFICES ASSUME Init PROVE Streaming
  OBVIOUS
<1>1. Typed
  BY TypedInit
<1>2. WorkersStream /\ MarkersFollow /\ FinishedArrived /\ NothingLeft /\ BeforeSpawn
  BY DEF Init, WorkersStream, MarkersFollow, FinishedArrived, NothingLeft,
         BeforeSpawn, NothingPending
<1> QED
  BY <1>1, <1>2 DEF Streaming, Typed

\* A step that changes nothing the coordinator sees keeps its part.
LEMMA CoordinatorPartKept ==
  ASSUME Streaming, UNCHANGED <<phase, store, batch, pending, results, finished>>,
         rejected \subseteq rejected', phase # "err"
  PROVE  (MarkersFollow /\ FinishedArrived /\ NothingLeft)'
<1>1. Typed /\ MarkersFollow /\ FinishedArrived /\ NothingLeft
  BY DEF Streaming, Typed
<1>2. \A i \in Items : \A n \in 0..Len(results) : AllArrived(i, n) => AllArrived(i, n)'
  BY <1>1, ArrivedUnmoved
<1>3. results \in Seq(WorkResults) /\ finished \subseteq Items
  BY <1>1 DEF Typed, TypeOK
<1>4. MarkersFollow'
  <2> SUFFICES ASSUME NEW p \in DOMAIN results, results[p].is_final
               PROVE  AllArrived(results[p].item, p - 1)'
    BY DEF MarkersFollow
  <2>1. results[p].item \in Items /\ p - 1 \in 0..Len(results)
    <3>1. results[p] \in WorkResults /\ p \in 1..Len(results) /\ Len(results) \in Nat
      BY <1>3
    <3> QED
      BY <3>1 DEF WorkResults
  <2>2. AllArrived(results[p].item, p - 1)
    BY <1>1 DEF MarkersFollow
  <2> QED
    BY <2>1, <2>2, <1>2
<1>5. FinishedArrived'
  BY <1>1, <1>2, <1>3 DEF FinishedArrived
<1>6. NothingLeft'
  BY <1>1 DEF NothingLeft, NothingPending
<1> QED
  BY <1>4, <1>5, <1>6

\* The streaming obligation of one worker (the body of WorkersStream).
WorkerStreams(v) ==
  /\ wpc[v] \in {"parse", "embed", "send", "final"} =>
       \A k \in DOMAIN Chunks[witem[v]] :
         k <= wsent[v] => Arrived(witem[v], k, Len(results))
  /\ wpc[v] = "final" => AllArrived(witem[v], Len(results))

\* A worker a step leaves alone still streams, as long as what arrived stays.
LEMMA OtherWorkersKept ==
  ASSUME Streaming, phase # "err", NEW v \in Workers,
         wpc'[v] = wpc[v], witem'[v] = witem[v], wsent'[v] = wsent[v],
         UNCHANGED <<store, batch, pending, results>>, rejected \subseteq rejected'
  PROVE  WorkerStreams(v)'
<1>1. Typed /\ WorkersStream
  BY DEF Streaming, Typed
<1>2. Len(results) \in Nat
  BY <1>1 DEF Typed, TypeOK
<1>3. \A i \in Items : 
        /\ \A k \in DOMAIN Chunks[i] : Arrived(i, k, Len(results)) => Arrived(i, k, Len(results))'
        /\ AllArrived(i, Len(results)) => AllArrived(i, Len(results))'
  <2>1. Len(results) \in 0..Len(results)
    BY <1>2
  <2> QED
    BY <1>1, <2>1, ArrivedUnmoved
<1>4. wpc[v] \in {"parse", "embed", "send", "final"} => witem[v] \in Items
  BY <1>1 DEF Typed, SlicesFit
<1> QED
  BY <1>1, <1>3, <1>4 DEF WorkersStream, WorkerStreams

\* Setting up a run, no chunk is pending yet.
LEMMA StreamingSetup == Streaming /\ Setup => Streaming'
<1> SUFFICES ASSUME Streaming, Setup PROVE Streaming'
  OBVIOUS
<1>1. Typed'
  BY TypedSetup DEF Streaming, Typed
<1>2. /\ phase \in {"start", "delete"} /\ finished = {} /\ results = <<>>
      /\ batch = <<>> /\ NothingPending /\ \A w \in Workers : wpc[w] = "off"
  BY DEF Streaming, BeforeSpawn, Setup, DetectChanges, SetupFails, DeleteRemoved,
         DeleteFails
<1>3. /\ finished' = {} /\ results' = <<>> /\ batch' = <<>> /\ NothingPending'
      /\ \A w \in Workers : wpc'[w] \in {"off", "gate"}
      /\ phase' \in {"start", "delete"} => \A w \in Workers : wpc'[w] = "off"
  BY <1>2 DEF Setup, DetectChanges, SetupFails, DeleteRemoved, DeleteFails,
              NothingPending, localVars
<1>4. (WorkersStream /\ MarkersFollow /\ FinishedArrived /\ NothingLeft /\ BeforeSpawn)'
  BY <1>3 DEF WorkersStream, MarkersFollow, FinishedArrived, NothingLeft, BeforeSpawn
<1> QED
  BY <1>1, <1>4 DEF Streaming, Typed

\* Feeding moves no chunk.
LEMMA StreamingFeeding == Streaming /\ Feeding => Streaming'
<1> SUFFICES ASSUME Streaming, Feeding PROVE Streaming'
  OBVIOUS
<1>1. Typed'
  BY TypedFeeding DEF Streaming, Typed
<1>2. UNCHANGED <<phase, store, batch, pending, results, finished, rejected, localVars>>
  BY DEF Feeding, Feed, FeederDone, CloseWork, coordVars, outcomeVars
<1>3. BeforeSpawn'
  BY <1>2 DEF Streaming, BeforeSpawn, NothingPending, localVars
<1>4. ASSUME phase # "err" PROVE WorkersStream'
  <2>1. \A v \in Workers : WorkerStreams(v)'
    BY <1>2, <1>4, OtherWorkersKept DEF localVars
  <2> QED
    BY <2>1 DEF WorkersStream, WorkerStreams
<1>5. ASSUME phase # "err" PROVE (MarkersFollow /\ FinishedArrived /\ NothingLeft)'
  BY <1>2, <1>5, CoordinatorPartKept
<1> QED
  BY <1>1, <1>2, <1>3, <1>4, <1>5 DEF Streaming, Typed

\* The worker steps that send nothing.
LocalStep(w) ==
  \/ Gate(w) \/ Wake(w) \/ Lock(w) \/ Recv(w) \/ RecvNone(w) \/ ParseOk(w)
  \/ ChunkerRejects(w) \/ ReadFails(w) \/ EmbedOk(w) \/ EmbedFails(w)
  \/ Panics(w) \/ SendFails(w)

\* What a step of a worker that sends nothing leaves alone.
LEMMA LocalStepFrame ==
  ASSUME Typed, NEW w \in Workers, LocalStep(w)
  PROVE  /\ UNCHANGED <<phase, store, batch, pending, results, finished>>
         /\ rejected \subseteq rejected'
         /\ wpc[w] # "off"
         /\ \A v \in Workers \ {w} : /\ wpc'[v] = wpc[v]
                                    /\ witem'[v] = witem[v]
                                    /\ wsent'[v] = wsent[v]
BY DEF LocalStep, Gate, Wake, Lock, Recv, RecvNone, ParseOk, ChunkerRejects, ReadFails,
       EmbedOk, EmbedFails, GiveUp, Panics, SendFails, coordVars, outcomeVars,
       localVars, Typed, TypeOK

\* Such a step keeps every chunk where it is.
LEMMA StreamingLocal ==
  ASSUME Streaming, NEW w \in Workers, LocalStep(w)
  PROVE  Streaming'
<1>1. Typed
  BY DEF Streaming, Typed
<1>2. Typed'
  BY <1>1, TypedWorker DEF LocalStep, Worker
<1>3. BeforeSpawn'
  BY <1>1, LocalStepFrame DEF Streaming, BeforeSpawn, NothingPending
<1>4. ASSUME phase # "err" PROVE WorkersStream'
  <2>1. \A v \in Workers \ {w} : WorkerStreams(v)'
    BY <1>1, <1>4, LocalStepFrame, OtherWorkersKept
  <2>2. WorkerStreams(w)'
    <3>1. CASE wpc'[w] \notin {"parse", "embed", "send", "final"}
      BY <3>1 DEF WorkerStreams
    <3>2. CASE Recv(w)
      <4>1. wsent'[w] = 0 /\ wpc'[w] = "parse"
        BY <1>1, <3>2 DEF Recv, Typed, TypeOK
      <4>2. witem'[w] \in Items
        BY <1>2, <4>1 DEF Typed, SlicesFit
      <4>3. \A k \in DOMAIN Chunks[witem'[w]] : ~(k <= 0)
        BY <4>2
      <4> QED
        BY <4>1, <4>3 DEF WorkerStreams
    <3>3. ASSUME wpc'[w] \in {"parse", "embed", "send", "final"}, ~Recv(w)
          PROVE  WorkerStreams(w)'
      <4>1. /\ wpc[w] \in {"parse", "embed", "send", "final"}
            /\ witem'[w] = witem[w] /\ wsent'[w] = wsent[w]
            /\ wpc'[w] = "final" => wpc[w] = "parse"
        BY <1>1, <3>3 DEF LocalStep, Gate, Wake, Lock, RecvNone, ParseOk, ChunkerRejects,
              ReadFails, EmbedOk, EmbedFails, GiveUp, Panics, SendFails, Typed, TypeOK
      <4>2. witem[w] \in Items /\ Len(results) \in Nat
        BY <1>1, <4>1 DEF Typed, TypeOK, SlicesFit
      <4>3. \A k \in DOMAIN Chunks[witem[w]] :
              Arrived(witem[w], k, Len(results)) => Arrived(witem[w], k, Len(results))'
        <5>1. Len(results) \in 0..Len(results)
          BY <4>2
        <5>2. /\ UNCHANGED <<store, batch, pending, results>>
              /\ rejected \subseteq rejected'
          BY <1>1, LocalStepFrame
        <5>3. \A i \in Items : \A k \in DOMAIN Chunks[i] :
                Arrived(i, k, Len(results)) => Arrived(i, k, Len(results))'
          BY <1>1, <5>1, <5>2, ArrivedUnmoved
        <5> QED
          BY <4>1, <4>2, <5>2, <5>3
      <4>4. \A k \in DOMAIN Chunks[witem[w]] :
              k <= wsent[w] => Arrived(witem[w], k, Len(results))'
        BY <1>4, <4>1, <4>3 DEF Streaming, WorkersStream
      <4>5. wpc'[w] = "final" =>
              witem[w] \in rejected' \/ Chunks[witem[w]] = <<>>
        BY <1>1, <3>3 DEF LocalStep, Gate, Wake, Lock, RecvNone, ParseOk, ChunkerRejects,
              ReadFails, EmbedOk, EmbedFails, GiveUp, Panics, SendFails, Typed, TypeOK
      <4>6. wpc'[w] = "final" => AllArrived(witem[w], Len(results))'
        BY <4>1, <4>2, <4>5 DEF AllArrived
      <4> QED
        BY <4>1, <4>4, <4>6 DEF WorkerStreams
    <3> QED
      BY <3>1, <3>2, <3>3
  <2> QED
    BY <2>1, <2>2 DEF WorkersStream, WorkerStreams
<1>5. ASSUME phase # "err" PROVE (MarkersFollow /\ FinishedArrived /\ NothingLeft)'
  BY <1>1, <1>5, LocalStepFrame, CoordinatorPartKept
<1> QED
  BY <1>1, <1>2, <1>3, <1>4, <1>5, LocalStepFrame DEF Streaming, Typed

\* A result is appended: everything that had arrived still has, at the same
\* place, so the coordinator's part holds if the new result keeps the order.
LEMMA AppendKept ==
  ASSUME Streaming, phase # "err", NEW r \in WorkResults,
         results' = Append(results, r),
         UNCHANGED <<phase, store, batch, pending, finished, rejected>>,
         r.is_final => AllArrived(r.item, Len(results))
  PROVE  /\ (MarkersFollow /\ FinishedArrived /\ NothingLeft)'
         /\ Len(results') = Len(results) + 1 /\ results'[Len(results) + 1] = r
         /\ \A i \in Items : \A k \in DOMAIN Chunks[i] :
              \/ Arrived(i, k, Len(results)) \/ Holds(r, i, k)
              => Arrived(i, k, Len(results))'
         /\ \A i \in Items : AllArrived(i, Len(results)) => AllArrived(i, Len(results))'
<1>1. Typed /\ MarkersFollow /\ FinishedArrived /\ NothingLeft
  BY DEF Streaming, Typed
<1>2. results \in Seq(WorkResults) /\ finished \subseteq Items /\ Len(results) \in Nat
  BY <1>1 DEF Typed, TypeOK
<1> DEFINE L == Len(results)
<1>3. /\ Len(results') = L + 1 /\ results'[L + 1] = r
      /\ DOMAIN results' = 1..(L + 1)
      /\ \A q \in DOMAIN results : q \in DOMAIN results' /\ results'[q] = results[q]
  BY <1>2
<1>4. \A i \in Items : \A n \in 0..L :
        /\ \A k \in DOMAIN Chunks[i] : Arrived(i, k, n) => Arrived(i, k, n)'
        /\ AllArrived(i, n) => AllArrived(i, n)'
  <2>1. \A c \in Ids : InStoreOrBatch(c) => InStoreOrBatch(c)'
    BY DEF InStoreOrBatch, IdsOf
  <2>2. \A i \in Items : \A k \in DOMAIN Chunks[i] : Holds(pending, i, k) =>
          Holds(pending', i, k)
    OBVIOUS
  <2> QED
    BY <1>1, <1>3, <2>1, <2>2, ArrivedKept
<1>5. \A i \in Items : \A k \in DOMAIN Chunks[i] :
        Arrived(i, k, L) => Arrived(i, k, Len(results))'
  <2> SUFFICES ASSUME NEW i \in Items, NEW k \in DOMAIN Chunks[i], Arrived(i, k, L)
               PROVE  Arrived(i, k, Len(results))'
    OBVIOUS
  <2>1. CASE \E q \in 1..L : Holds(results[q], i, k)
    <3>1. PICK q \in 1..L : Holds(results[q], i, k)
      BY <2>1
    <3>2. q \in 1..(L + 1) /\ results'[q] = results[q]
      BY <1>2, <1>3
    <3>3. \E p \in 1..Len(results') : Holds(results'[p], i, k)
      BY <1>3, <3>1, <3>2
    <3> QED
      BY <3>3 DEF Arrived
  <2>2. CASE InStoreOrBatch(Chunks[i][k]) \/ Holds(pending, i, k)
    BY <2>2 DEF Arrived, InStoreOrBatch, IdsOf
  <2> QED
    BY <2>1, <2>2 DEF Arrived
<1>6. \A i \in Items : \A k \in DOMAIN Chunks[i] :
        Holds(r, i, k) => Arrived(i, k, Len(results))'
  <2> SUFFICES ASSUME NEW i \in Items, NEW k \in DOMAIN Chunks[i], Holds(r, i, k)
               PROVE  Arrived(i, k, Len(results))'
    OBVIOUS
  <2>1. \E p \in 1..Len(results') : Holds(results'[p], i, k)
    BY <1>2, <1>3
  <2> QED
    BY <2>1 DEF Arrived
<1>7. MarkersFollow'
  <2> SUFFICES ASSUME NEW p \in DOMAIN results', results'[p].is_final
               PROVE  AllArrived(results[p].item, p - 1)'
    BY DEF MarkersFollow
  <2>1. CASE p \in DOMAIN results
    <3>1. results[p] \in WorkResults /\ p - 1 \in 0..L /\ results'[p] = results[p]
      BY <1>2, <1>3, <2>1
    <3>2. PICK i \in Items : i = results[p].item
      BY <3>1 DEF WorkResults
    <3>3. AllArrived(i, p - 1)
      BY <1>1, <2>1, <3>1, <3>2 DEF MarkersFollow
    <3>4. AllArrived(i, p - 1)'
      BY <1>4, <3>1, <3>3
    <3> QED
      BY <3>1, <3>2, <3>4
  <2>2. CASE p = L + 1
    <3>1. PICK n \in 0..L : n = L
      BY <1>2
    <3>2. r.item \in Items /\ r.is_final /\ results'[p] = r /\ p - 1 = n
      BY <1>2, <1>3, <2>2, <3>1 DEF WorkResults
    <3>3. AllArrived(r.item, n)
      BY <3>1, <3>2
    <3>4. AllArrived(r.item, n)'
      BY <1>4, <3>2, <3>3
    <3> QED
      BY <3>2, <3>4
  <2> QED
    BY <1>2, <1>3, <2>1, <2>2
<1>8. FinishedArrived' /\ NothingLeft'
  BY <1>1, <1>2, <1>4 DEF FinishedArrived, NothingLeft, NothingPending
<1>9. \A i \in Items : AllArrived(i, L) => AllArrived(i, Len(results))'
  BY <1>5 DEF AllArrived
<1> QED
  BY <1>3, <1>5, <1>6, <1>7, <1>8, <1>9

\* A message carries the next chunks of its file, and no other.
LEMMA StreamingSend ==
  ASSUME Streaming, NEW w \in Workers, Send(w) \/ SendFinal(w)
  PROVE  Streaming'
<1>1. Typed
  BY DEF Streaming, Typed
<1>2. Typed'
  BY <1>1, TypedWorker DEF Worker
<1>3. /\ UNCHANGED <<phase, store, batch, pending, finished, rejected>>
      /\ phase # "err" /\ wpc[w] \in {"send", "final"}
      /\ \A v \in Workers \ {w} : /\ wpc'[v] = wpc[v] /\ witem'[v] = witem[v]
                                 /\ wsent'[v] = wsent[v]
  BY <1>1 DEF Send, SendFinal, Returned, coordVars, outcomeVars, Typed, TypeOK
<1>4. WorkersStream /\ BeforeSpawn /\ witem[w] \in Items /\ Len(results) \in Nat
      /\ wsent[w] \in Nat
  BY <1>1, <1>3 DEF Streaming, Typed, TypeOK, SlicesFit
<1> DEFINE e == IF wpc[w] = "send" THEN MicroBatchEnd(w) ELSE wsent[w]
<1>5. PICK r \in WorkResults :
        r = [item |-> witem[w], from |-> wsent[w], upto |-> e,
             is_final |-> (wpc[w] = "final")]
  <2>1. e \in Nat
    <3>1. wsize[w] \in Nat
      BY <1>1 DEF Typed, TypeOK
    <3>2. Len(Chunks[witem[w]]) \in Nat
      BY <1>4
    <3> QED
      BY <1>4, <3>1, <3>2 DEF MicroBatchEnd, Smaller
  <2>2. (wpc[w] = "final") \in BOOLEAN
    OBVIOUS
  <2> HIDE DEF e
  <2> QED
    BY <1>4, <2>1, <2>2 DEF WorkResults
<1>6. results' = Append(results, r)
  BY <1>5 DEF Send, SendFinal
<1>7. r.is_final => AllArrived(r.item, Len(results))
  BY <1>4, <1>5 DEF WorkersStream
<1>8. /\ (MarkersFollow /\ FinishedArrived /\ NothingLeft)'
      /\ \A i \in Items : \A k \in DOMAIN Chunks[i] :
           \/ Arrived(i, k, Len(results)) \/ Holds(r, i, k)
           => Arrived(i, k, Len(results))'
      /\ \A i \in Items : AllArrived(i, Len(results)) => AllArrived(i, Len(results))'
  BY <1>3, <1>6, <1>7, AppendKept
<1>9. BeforeSpawn'
  BY <1>3, <1>4 DEF BeforeSpawn
<1>10. ASSUME NEW v \in Workers, v # w PROVE WorkerStreams(v)'
  <2>1. /\ wpc'[v] = wpc[v] /\ witem'[v] = witem[v] /\ wsent'[v] = wsent[v]
        /\ wpc[v] \in {"parse", "embed", "send", "final"} => witem[v] \in Items
    BY <1>1, <1>3, <1>10 DEF Typed, SlicesFit
  <2> QED
    BY <1>4, <1>8, <2>1 DEF WorkersStream, WorkerStreams
<1>11. WorkerStreams(w)'
  <2>1. CASE SendFinal(w)
    <3>1. wpc'[w] = "gate"
      BY <1>1, <2>1 DEF SendFinal, Typed, TypeOK
    <3> QED
      BY <3>1 DEF WorkerStreams
  <2>2. CASE Send(w)
    <3>1. /\ wpc[w] = "send" /\ witem'[w] = witem[w] /\ wsent'[w] = e
          /\ wpc'[w] = "final" => e = Len(Chunks[witem[w]])
      BY <1>1, <2>2 DEF Send, Typed, TypeOK
    <3>2. r.item = witem[w] /\ r.from = wsent[w] /\ r.upto = e
      BY <1>5
    <3>3. PICK i \in Items : i = witem[w]
      BY <1>4
    <3>4. \A k \in DOMAIN Chunks[i] : k <= e => Arrived(i, k, Len(results))'
      <4> SUFFICES ASSUME NEW k \in DOMAIN Chunks[i], k <= e
                   PROVE  Arrived(i, k, Len(results))'
        OBVIOUS
      <4>1. CASE k <= wsent[w]
        BY <1>4, <1>8, <3>1, <3>3, <4>1 DEF WorkersStream
      <4>2. CASE wsent[w] < k
        <5>1. Holds(r, i, k)
          BY <3>2, <3>3, <4>2 DEF Holds
        <5> QED
          BY <1>8, <5>1
      <4> QED
        BY <1>4, <4>1, <4>2
    <3>5. e = Len(Chunks[i]) => \A k \in DOMAIN Chunks[i] : k <= e
      OBVIOUS
    <3>6. wpc'[w] = "final" => AllArrived(i, Len(results))'
      BY <3>1, <3>3, <3>4, <3>5 DEF AllArrived
    <3> QED
      BY <3>1, <3>3, <3>4, <3>6 DEF WorkerStreams
  <2> QED
    BY <2>1, <2>2
<1>12. WorkersStream'
  BY <1>10, <1>11 DEF WorkersStream, WorkerStreams
<1> QED
  BY <1>2, <1>8, <1>9, <1>12 DEF Streaming, Typed

\* The coordinator's steps that move a chunk towards the store, or none.
LEMMA CollectKept ==
  ASSUME Streaming, phase # "err",
         UNCHANGED <<results, finished, rejected, localVars>>,
         \A c \in Ids : InStoreOrBatch(c) => InStoreOrBatch(c)',
         \A i \in Items : \A k \in DOMAIN Chunks[i] : Holds(pending, i, k) =>
           Holds(pending', i, k) \/ InStoreOrBatch(Chunks[i][k])'
  PROVE  (WorkersStream /\ MarkersFollow /\ FinishedArrived)'
<1>1. Typed /\ WorkersStream /\ MarkersFollow /\ FinishedArrived
  BY DEF Streaming, Typed
<1>2. results \in Seq(WorkResults) /\ finished \subseteq Items /\ Len(results) \in Nat
  BY <1>1 DEF Typed, TypeOK
<1>3. \A i \in Items : \A n \in 0..Len(results) :
        /\ \A k \in DOMAIN Chunks[i] : Arrived(i, k, n) => Arrived(i, k, n)'
        /\ AllArrived(i, n) => AllArrived(i, n)'
  <2>1. \A q \in DOMAIN results : q \in DOMAIN results' /\ results'[q] = results[q]
    OBVIOUS
  <2> QED
    BY <1>1, <2>1, ArrivedKept
<1>4. PICK L \in 0..Len(results) : L = Len(results) /\ L = Len(results')
  BY <1>2
<1>5. WorkersStream'
  <2> SUFFICES ASSUME NEW v \in Workers PROVE WorkerStreams(v)'
    BY DEF WorkersStream, WorkerStreams
  <2>1. wpc'[v] = wpc[v] /\ witem'[v] = witem[v] /\ wsent'[v] = wsent[v]
    BY DEF localVars
  <2>2. wpc[v] \in {"parse", "embed", "send", "final"} => witem[v] \in Items
    BY <1>1 DEF Typed, SlicesFit
  <2> QED
    BY <1>1, <1>3, <1>4, <2>1, <2>2 DEF WorkersStream, WorkerStreams
<1>6. MarkersFollow'
  <2> SUFFICES ASSUME NEW p \in DOMAIN results, results[p].is_final
               PROVE  AllArrived(results[p].item, p - 1)'
    BY DEF MarkersFollow
  <2>1. results[p] \in WorkResults /\ p - 1 \in 0..Len(results)
    BY <1>2
  <2>2. PICK i \in Items : i = results[p].item
    BY <2>1 DEF WorkResults
  <2>3. AllArrived(i, p - 1)'
    BY <1>1, <1>3, <2>1, <2>2 DEF MarkersFollow
  <2> QED
    BY <2>2, <2>3
<1>7. FinishedArrived'
  BY <1>1, <1>2, <1>3 DEF FinishedArrived
<1> QED
  BY <1>5, <1>6, <1>7

\* A document pushed to the batch is in it, and so is what was there before.
LEMMA PushedIds ==
  ASSUME Typed, ~NothingPending
  PROVE  /\ IdsOf(batch) \subseteq IdsOf(Pushed)
         /\ Chunks[pending.item][pending.from + 1] \in IdsOf(Pushed)
<1>1. batch \in Seq(Docs)
  BY DEF Typed, TypeOK
<1>2. /\ pending.item \in Items /\ pending.from + 1 \in DOMAIN Chunks[pending.item]
  BY PushedType
<1>3. DocOf(pending.item, pending.from + 1) \in Docs
      /\ DocOf(pending.item, pending.from + 1).id
           = Chunks[pending.item][pending.from + 1]
  BY <1>2, DocOfType
<1>4. /\ \A n \in DOMAIN batch : n \in DOMAIN Pushed /\ Pushed[n] = batch[n]
      /\ Len(batch) + 1 \in DOMAIN Pushed
      /\ Pushed[Len(batch) + 1] = DocOf(pending.item, pending.from + 1)
  BY <1>1, <1>3 DEF Pushed
<1> QED
  BY <1>3, <1>4 DEF IdsOf

\* RecvResult: the head of the channel becomes the pending slice.
LEMMA StreamingRecvResult == Streaming /\ RecvResult => Streaming'
<1> SUFFICES ASSUME Streaming, RecvResult PROVE Streaming'
  OBVIOUS
<1>1. Typed /\ WorkersStream /\ MarkersFollow /\ FinishedArrived /\ phase = "collect"
  BY DEF Streaming, Typed, RecvResult
<1>2. Typed'
  BY <1>1, TypedCollect DEF Collect
<1>3. /\ results \in Seq(WorkResults) /\ results # <<>> /\ finished \subseteq Items
      /\ Len(results) \in Nat /\ Len(results) >= 1
  BY <1>1 DEF RecvResult, Typed, TypeOK
<1>4. /\ results' = Tail(results) /\ Len(results') = Len(results) - 1
      /\ \A q \in DOMAIN results' : q + 1 \in DOMAIN results /\ results'[q] = results[q + 1]
      /\ Head(results) = results[1]
  BY <1>3 DEF RecvResult
<1>5. UNCHANGED <<phase, store, batch, rejected, localVars>>
  BY DEF RecvResult, outcomeVars
<1>6. ASSUME NEW i \in Items, NEW k \in DOMAIN Chunks[i], NEW n \in 0..Len(results),
             Arrived(i, k, n)
      PROVE  \A m \in Nat : m >= n - 1 => Arrived(i, k, m)'
  <2>1. CASE InStoreOrBatch(Chunks[i][k])
    BY <1>5, <2>1 DEF Arrived, InStoreOrBatch, IdsOf
  <2>2. ~Holds(pending, i, k)
    BY <1>1 DEF RecvResult, NothingPending, Holds, Typed, TypeOK, Slices
  <2>3. CASE \E q \in 1..n : Holds(results[q], i, k)
    <3>1. PICK q \in 1..n : Holds(results[q], i, k)
      BY <2>3
    <3>2. CASE q = 1
      <4>1. Holds(pending', i, k)
        BY <1>4, <3>1, <3>2 DEF RecvResult, Holds
      <4> QED
        BY <4>1 DEF Arrived
    <3>3. CASE q # 1
      <4>1. q - 1 \in DOMAIN results' /\ (q - 1) + 1 = q
        BY <1>3, <1>4, <3>3
      <4>2. Holds(results'[q - 1], i, k)
        BY <1>4, <3>1, <4>1
      <4>3. \A m \in Nat : m >= n - 1 => q - 1 \in 1..m
        BY <3>3
      <4> QED
        BY <4>2, <4>3 DEF Arrived
    <3> QED
      BY <3>2, <3>3
  <2> QED
    BY <1>6, <2>1, <2>2, <2>3 DEF Arrived
<1>7. ASSUME NEW i \in Items, NEW n \in 0..Len(results), AllArrived(i, n)
      PROVE  \A m \in Nat : m >= n - 1 => AllArrived(i, m)'
  BY <1>5, <1>6, <1>7 DEF AllArrived
<1>8. PICK L \in 0..Len(results) : L = Len(results) /\ L - 1 = Len(results') /\ L - 1 \in Nat
  <2>1. /\ Len(results) \in 0..Len(results) /\ Len(results) - 1 \in Nat
        /\ Len(results) - 1 = Len(results')
    BY <1>3, <1>4
  <2> QED
    BY <2>1
<1>9. WorkersStream'
  <2> SUFFICES ASSUME NEW v \in Workers PROVE WorkerStreams(v)'
    BY DEF WorkersStream, WorkerStreams
  <2>1. wpc'[v] = wpc[v] /\ witem'[v] = witem[v] /\ wsent'[v] = wsent[v]
    BY <1>5 DEF localVars
  <2>2. wpc[v] \in {"parse", "embed", "send", "final"} => witem[v] \in Items
    BY <1>1 DEF Typed, SlicesFit
  <2>3. \A i \in Items :
          /\ \A k \in DOMAIN Chunks[i] : Arrived(i, k, L) => Arrived(i, k, L - 1)'
          /\ AllArrived(i, L) => AllArrived(i, L - 1)'
    BY <1>6, <1>7, <1>8
  <2> QED
    BY <1>1, <1>8, <2>1, <2>2, <2>3 DEF WorkersStream, WorkerStreams
<1>10. MarkersFollow'
  <2> SUFFICES ASSUME NEW p \in DOMAIN results', results'[p].is_final
               PROVE  AllArrived(results[p].item, p - 1)'
    BY DEF MarkersFollow
  <2>1. /\ p \in Nat /\ p >= 1 /\ p + 1 \in DOMAIN results
        /\ results'[p] = results[p + 1] /\ results[p + 1] \in WorkResults
    BY <1>2, <1>3, <1>4 DEF Typed, TypeOK
  <2>2. PICK i \in Items : i = results[p + 1].item
    BY <2>1 DEF WorkResults
  <2>3. (p + 1) - 1 = p /\ p \in 0..Len(results) /\ p - 1 \in Nat /\ p - 1 >= p - 1
    BY <1>3, <2>1
  <2>4. AllArrived(i, p)
    BY <1>1, <2>1, <2>2, <2>3 DEF MarkersFollow
  <2>5. AllArrived(i, p - 1)'
    BY <1>7, <2>3, <2>4
  <2> QED
    BY <2>1, <2>2, <2>5
<1>11. FinishedArrived'
  <2>1. 0 \in 0..Len(results) /\ 0 \in Nat /\ 0 >= 0 - 1
    BY <1>3
  <2>2. ASSUME NEW i \in finished' PROVE AllArrived(i, 0)
    <3>1. CASE i \in finished
      BY <1>1, <3>1 DEF FinishedArrived
    <3>2. CASE i \notin finished
      <4>1. Head(results).is_final /\ i = Head(results).item /\ 1 \in DOMAIN results
        BY <1>3, <2>2, <3>2 DEF RecvResult
      <4> QED
        BY <1>1, <1>4, <4>1 DEF MarkersFollow
    <3> QED
      BY <3>1, <3>2
  <2>3. finished' \subseteq Items
    BY <1>2 DEF Typed, TypeOK
  <2>4. \A i \in finished' : AllArrived(i, 0)'
    BY <1>7, <2>1, <2>2, <2>3
  <2> QED
    BY <2>4 DEF FinishedArrived
<1> QED
  BY <1>1, <1>2, <1>5, <1>9, <1>10, <1>11 DEF Streaming, Typed, NothingLeft, BeforeSpawn

\* A chunk that is collected goes to the batch, and from there to the store.
LEMMA StreamingCollect == Streaming /\ Collect => Streaming'
<1> SUFFICES ASSUME Streaming, Collect PROVE Streaming'
  OBVIOUS
<1>1. Typed
  BY DEF Streaming, Typed
<1>2. Typed'
  BY <1>1, TypedCollect
<1>3. phase \in {"collect", "join"}
  BY DEF Collect, RecvResult, PushChunk, PushAndUpsert, PushUpsertFails, FlushRest,
         FlushRestFails, ResultsClosed, Join
\* A chunk of the pending slice stays there or is the one that is pushed.
<1>4. ASSUME NEW i \in Items, NEW k \in DOMAIN Chunks[i], Holds(pending, i, k),
             pending' = Advanced
      PROVE  \/ Holds(pending', i, k)
             \/ i = pending.item /\ k = pending.from + 1
  BY <1>1, <1>4 DEF Holds, Advanced, Typed, TypeOK, Slices
<1>5. CASE PushChunk
  <2>1. \A c \in Ids : InStoreOrBatch(c) => InStoreOrBatch(c)'
    BY <1>1, <1>5, PushedIds DEF PushChunk, InStoreOrBatch, IdsOf
  <2>2. \A i \in Items : \A k \in DOMAIN Chunks[i] : Holds(pending, i, k) =>
          Holds(pending', i, k) \/ InStoreOrBatch(Chunks[i][k])'
    BY <1>1, <1>4, <1>5, PushedIds DEF PushChunk, InStoreOrBatch, IdsOf
  <2>3. (WorkersStream /\ MarkersFollow /\ FinishedArrived)'
    BY <1>3, <1>5, <2>1, <2>2, CollectKept DEF PushChunk, outcomeVars
  <2> QED
    BY <1>2, <1>5, <2>3 DEF Streaming, Typed, PushChunk, NothingLeft, BeforeSpawn
<1>6. CASE PushAndUpsert
  <2>1. Pushed \in Seq(Docs) /\ store \in [Ids -> Rows]
    BY <1>1, <1>6, PushedType DEF PushAndUpsert, Typed, TypeOK
  <2>2. \A c \in Ids : \/ SkipUpload \/ store[c] # NoRow \/ c \in IdsOf(Pushed)
                       => InStoreOrBatch(c)'
    BY <1>6, <2>1, UpsertedRows DEF PushAndUpsert, InStoreOrBatch
  <2>3. \A c \in Ids : InStoreOrBatch(c) => InStoreOrBatch(c)'
    BY <1>1, <1>6, <2>2, PushedIds DEF PushAndUpsert, InStoreOrBatch
  <2>4. \A i \in Items : \A k \in DOMAIN Chunks[i] : Holds(pending, i, k) =>
          Holds(pending', i, k) \/ InStoreOrBatch(Chunks[i][k])'
    <3> SUFFICES ASSUME NEW i \in Items, NEW k \in DOMAIN Chunks[i],
                        i = pending.item, k = pending.from + 1
                 PROVE  InStoreOrBatch(Chunks[i][k])'
      BY <1>4, <1>6 DEF PushAndUpsert
    <3>1. Chunks[i][k] \in IdsOf(Pushed)
      BY <1>1, <1>6, PushedIds DEF PushAndUpsert
    <3>2. Chunks[i][k] \in Ids
      OBVIOUS
    <3> QED
      BY <2>2, <3>1, <3>2
  <2>5. (WorkersStream /\ MarkersFollow /\ FinishedArrived)'
    BY <1>3, <1>6, <2>3, <2>4, CollectKept DEF PushAndUpsert, outcomeVars
  <2> QED
    BY <1>2, <1>6, <2>5 DEF Streaming, Typed, PushAndUpsert, NothingLeft, BeforeSpawn
<1>7. CASE FlushRest
  <2>1. batch \in Seq(Docs) /\ store \in [Ids -> Rows]
    BY <1>1 DEF Typed, TypeOK
  <2>2. \A c \in Ids : InStoreOrBatch(c) => InStoreOrBatch(c)'
    BY <1>7, <2>1, UpsertedRows DEF FlushRest, InStoreOrBatch
  <2>3. \A i \in Items : \A k \in DOMAIN Chunks[i] : Holds(pending, i, k) =>
          Holds(pending', i, k)
    BY <1>7 DEF FlushRest
  <2>4. (WorkersStream /\ MarkersFollow /\ FinishedArrived)'
    BY <1>3, <1>7, <2>2, <2>3, CollectKept DEF FlushRest, outcomeVars
  <2> QED
    BY <1>2, <1>7, <2>4 DEF Streaming, Typed, FlushRest, ResultsClosed, NothingLeft,
                            NothingPending, BeforeSpawn
<1>8. CASE PushUpsertFails \/ FlushRestFails
  BY <1>2, <1>8 DEF PushUpsertFails, FlushRestFails, Streaming, Typed, BeforeSpawn
<1>9. CASE Join
  <2>1. UNCHANGED <<results, finished, rejected, localVars, store, batch, pending>>
    BY <1>9 DEF Join, outcomeVars
  <2>2. (WorkersStream /\ MarkersFollow /\ FinishedArrived)'
    BY <1>3, <2>1, CollectKept DEF InStoreOrBatch, IdsOf
  <2>3. NothingLeft' /\ BeforeSpawn'
    BY <1>9, <2>1 DEF Streaming, Join, NothingLeft, NothingPending, BeforeSpawn
  <2> QED
    BY <1>2, <2>2, <2>3 DEF Streaming, Typed
<1> QED
  BY <1>5, <1>6, <1>7, <1>8, <1>9, StreamingRecvResult DEF Collect

\* The invariant is inductive.
LEMMA StreamingNext == Streaming /\ [Next]_vars => Streaming'
<1> SUFFICES ASSUME Streaming, [Next]_vars PROVE Streaming'
  OBVIOUS
<1>1. ASSUME UNCHANGED vars PROVE Streaming'
  <2>1. UNCHANGED <<phase, store, batch, pending, results, finished, rejected, localVars>>
    BY <1>1 DEF vars, coordVars, outcomeVars
  <2>2. Typed'
    BY <1>1, TypedNext DEF Streaming, Typed
  <2>3. BeforeSpawn'
    BY <2>1 DEF Streaming, BeforeSpawn, NothingPending, localVars
  <2>4. ASSUME phase # "err"
        PROVE  (WorkersStream /\ MarkersFollow /\ FinishedArrived /\ NothingLeft)'
    <3>1. \A v \in Workers : WorkerStreams(v)'
      BY <2>1, <2>4, OtherWorkersKept DEF localVars
    <3> QED
      BY <2>1, <2>4, <3>1, CoordinatorPartKept DEF WorkersStream, WorkerStreams
  <2> QED
    BY <2>1, <2>2, <2>3, <2>4 DEF Streaming, Typed
<1>2. ASSUME NEW w \in Workers, Worker(w) PROVE Streaming'
  BY <1>2, StreamingLocal, StreamingSend DEF Worker, LocalStep
<1> QED
  BY <1>1, <1>2, StreamingSetup, StreamingFeeding, StreamingCollect DEF Next, Rest

\* Streaming gives the property: a successful run has an empty batch and no
\* pending slice, so whatever arrived for a finished file is in the store.
LEMMA StreamingSuffices == Streaming => ProcessedStored
<1> SUFFICES ASSUME Streaming, phase = "ok", ~SkipUpload, NEW key \in Processed
             PROVE  \E i \in finished :
                      /\ ToProcessKey(i) = key
                      /\ \/ i \in rejected
                         \/ \A k \in DOMAIN Chunks[i] : store[Chunks[i][k]] # NoRow
  BY DEF ProcessedStored
<1>1. PICK i \in finished : ToProcessKey(i) = key
  BY DEF Processed
<1>2. Typed /\ AllArrived(i, 0) /\ batch = <<>> /\ NothingPending
  BY DEF Streaming, Typed, FinishedArrived, NothingLeft
<1>3. i \in Items /\ pending \in Slices
  BY <1>2 DEF Typed, TypeOK
<1>4. ASSUME NEW k \in DOMAIN Chunks[i], Arrived(i, k, 0)
      PROVE  store[Chunks[i][k]] # NoRow
  <2>1. ~Holds(pending, i, k)
    BY <1>2, <1>3 DEF NothingPending, Holds, Slices
  <2>2. IdsOf(batch) = {}
    BY <1>2 DEF IdsOf
  <2> QED
    BY <1>4, <2>1, <2>2 DEF Arrived, InStoreOrBatch
<1> QED
  BY <1>1, <1>2, <1>4 DEF AllArrived

\* A successful run_pipeline reports a revision key as processed only when
\* every chunk of a file recorded under it is in the store (or its chunker
\* rejected the file), whatever the interleaving of the workers, the sizes of
\* channels and batches, the throttle and the failures of other files.
THEOREM ProcessedFilesAreStored == Spec => []ProcessedStored
<1> QED
  BY StreamingInit, StreamingNext, StreamingSuffices, PTL DEF Spec

-----------------------------------------------------------------------------
(* Counting: every queued file is counted exactly once.  Counted says      *)
(* where a queued item is (with the feeder, in the work channel, with a    *)
(* worker, in a final marker, or counted), and that it is in one place     *)
(* only.  That none is missing at the end rests on the worker with index   *)
(* 0, which no strategy ever sends home early.                             *)

\* The items in the work channel.
Queued == {work[k] : k \in DOMAIN work}

Busy(w) == wpc[w] \in {"parse", "embed", "send", "final"}

\* The items that workers hold.
Taken == {witem[w] : w \in {v \in Workers : Busy(v)}}

Finals == {p \in DOMAIN results : results[p].is_final}

\* The items whose final marker is in the result channel.
Marked == {results[p].item : p \in Finals}

\* The items that went with a worker's panic.
Lost == {witem[w] : w \in {v \in Workers : wpc[v] = "panic"}}

\* A queued item is in at most one of the six places, and nothing else is in any.
OnePlace ==
  /\ unfed \cup Queued \cup Taken \cup Marked \cup finished \cup failed \subseteq todo
  /\ unfed \cap (Queued \cup Taken \cup Marked \cup finished \cup failed) = {}
  /\ Queued \cap (Taken \cup Marked \cup finished \cup failed) = {}
  /\ Taken \cap (Marked \cup finished \cup failed) = {}
  /\ Marked \cap (finished \cup failed) = {}
  /\ finished \cap failed = {}

\* No item is there twice.
QueuedOnce == \A j, k \in DOMAIN work : work[j] = work[k] => j = k

TakenOnce ==
  \A v, w \in Workers : Busy(v) /\ Busy(w) /\ witem[v] = witem[w] => v = w

MarkedOnce ==
  \A p, q \in Finals : results[p].item = results[q].item => p = q

OnceEach == QueuedOnce /\ TakenOnce /\ MarkedOnce

\* ProgressCounters::done counts the given up and the finished items.
DoneCounts == done = Cardinality(finished) + Cardinality(failed)

\* Nothing happens before the tasks are spawned.
BeforeTasks ==
  phase \in {"start", "delete"} =>
    /\ unfed = {} /\ work = <<>> /\ results = <<>>
    /\ finished = {} /\ failed = {}
    /\ \A w \in Workers : wpc[w] = "off"

\* Until run_pipeline returns no queued item is missing; the feeder gives up
\* none, and the first worker leaves only a closed, empty channel.
NoneMissing ==
  phase \in {"collect", "join"} =>
    /\ todo \subseteq unfed \cup Queued \cup Taken \cup Marked \cup finished
                      \cup failed \cup Lost
    /\ feeder_done => unfed = {}
    /\ wpc[0] = "exit" => work = <<>> /\ feeder = "closed"

\* The coordinator leaves its loop when the workers are gone.
AtTheEnd ==
  /\ phase = "join" => results = <<>> /\ \A w \in Workers : Stopped(w)
  /\ phase = "ok" => /\ finished \cup failed = todo
                     /\ \A w \in Workers : wpc[w] \in {"off", "exit"}

Counted ==
  /\ Typed
  /\ OnePlace
  /\ OnceEach
  /\ DoneCounts
  /\ BeforeTasks
  /\ NoneMissing
  /\ AtTheEnd


----------------------------------------------------------------------------
(* The channels *)

\* A message sent to the work channel joins the queued items.
LEMMA QueuedAppend ==
  ASSUME work \in Seq(Items), NEW i \in Items, work' = Append(work, i)
  PROVE  /\ Queued' = Queued \cup {i}
         /\ QueuedOnce /\ i \notin Queued => QueuedOnce'
<1>1. /\ DOMAIN work = 1..Len(work) /\ DOMAIN work' = 1..(Len(work) + 1)
      /\ work'[Len(work) + 1] = i
      /\ \A k \in 1..Len(work) : work'[k] = work[k]
      /\ Len(work) \in Nat
  OBVIOUS
<1>2. Queued' = Queued \cup {i}
  <2>1. ASSUME NEW x \in Queued' PROVE x \in Queued \cup {i}
    BY <1>1, <2>1 DEF Queued
  <2>2. ASSUME NEW x \in Queued PROVE x \in Queued'
    BY <1>1, <2>2 DEF Queued
  <2>3. i \in Queued'
    <3>1. Len(work) + 1 \in DOMAIN work' /\ work'[Len(work) + 1] = i
      BY <1>1
    <3> QED
      BY <3>1, Zenon DEF Queued
  <2> QED
    BY <2>1, <2>2, <2>3
<1>3. ASSUME QueuedOnce, i \notin Queued PROVE QueuedOnce'
  <2>1. \A k \in 1..Len(work) : work[k] # i
    BY <1>1, <1>3 DEF Queued
  <2> QED
    BY <1>1, <1>3, <2>1 DEF QueuedOnce
<1> QED
  BY <1>2, <1>3

\* The item received from the work channel leaves the queued items.
LEMMA QueuedTail ==
  ASSUME work \in Seq(Items), work # <<>>, QueuedOnce, work' = Tail(work)
  PROVE  /\ Head(work) \in Queued
         /\ Queued' = Queued \ {Head(work)}
         /\ QueuedOnce'
<1>1. /\ DOMAIN work = 1..Len(work) /\ DOMAIN work' = 1..(Len(work) - 1)
      /\ \A k \in 1..(Len(work) - 1) : work'[k] = work[k + 1]
      /\ Len(work) \in Nat /\ Len(work) >= 1
      /\ Head(work) = work[1]
  OBVIOUS
<1>2. ASSUME NEW x \in Queued' PROVE x \in Queued /\ x # work[1]
  <2>1. PICK k \in 1..(Len(work) - 1) : x = work[k + 1]
    BY <1>1, <1>2 DEF Queued
  <2>2. k + 1 \in DOMAIN work /\ 1 \in DOMAIN work /\ k + 1 # 1
    BY <1>1
  <2> QED
    BY <2>1, <2>2 DEF Queued, QueuedOnce
<1>3. ASSUME NEW x \in Queued, x # work[1] PROVE x \in Queued'
  <2>1. PICK k \in 1..Len(work) : x = work[k]
    BY <1>1, <1>3 DEF Queued
  <2>2. k - 1 \in 1..(Len(work) - 1) /\ work'[k - 1] = work[k]
    BY <1>1, <1>3, <2>1
  <2> QED
    BY <1>1, <2>1, <2>2 DEF Queued
<1>4. QueuedOnce'
  BY <1>1 DEF QueuedOnce
<1>5. Head(work) \in Queued
  BY <1>1 DEF Queued
<1> QED
  BY <1>1, <1>2, <1>3, <1>4, <1>5

\* A result sent: a final marker joins the marked items, a slice does not.
LEMMA MarkedAppend ==
  ASSUME results \in Seq(WorkResults), NEW r \in WorkResults,
         results' = Append(results, r)
  PROVE  /\ Marked' = IF r.is_final THEN Marked \cup {r.item} ELSE Marked
         /\ MarkedOnce /\ (r.is_final => r.item \notin Marked) => MarkedOnce'
<1>1. /\ DOMAIN results = 1..Len(results) /\ DOMAIN results' = 1..(Len(results) + 1)
      /\ results'[Len(results) + 1] = r
      /\ \A k \in 1..Len(results) : results'[k] = results[k]
      /\ Len(results) \in Nat
  OBVIOUS
<1>2. /\ \A p \in Finals : p \in 1..Len(results) /\ p \in Finals'
      /\ \A p \in Finals' : p \in Finals \/ (p = Len(results) + 1 /\ r.is_final)
      /\ r.is_final => Len(results) + 1 \in Finals'
  BY <1>1 DEF Finals
<1>3. Marked' = IF r.is_final THEN Marked \cup {r.item} ELSE Marked
  <2>1. ASSUME NEW x \in Marked' PROVE x \in Marked \/ (r.is_final /\ x = r.item)
    BY <1>1, <1>2, <2>1 DEF Marked
  <2>2. ASSUME NEW x \in Marked PROVE x \in Marked'
    BY <1>1, <1>2, <2>2 DEF Marked
  <2>3. r.is_final => r.item \in Marked'
    BY <1>1, <1>2 DEF Marked
  <2> QED
    BY <2>1, <2>2, <2>3
<1>4. ASSUME MarkedOnce, r.is_final => r.item \notin Marked PROVE MarkedOnce'
  <2>1. \A p \in Finals : r.is_final => results[p].item # r.item
    BY <1>4 DEF Marked
  <2> QED
    BY <1>1, <1>2, <1>4, <2>1 DEF MarkedOnce
<1> QED
  BY <1>3, <1>4

\* A result received: a final marker leaves the marked items.
LEMMA MarkedTail ==
  ASSUME results \in Seq(WorkResults), results # <<>>, MarkedOnce,
         results' = Tail(results)
  PROVE  /\ Head(results).is_final => Head(results).item \in Marked
         /\ Marked' = IF Head(results).is_final
                      THEN Marked \ {Head(results).item} ELSE Marked
         /\ MarkedOnce'
<1>1. /\ DOMAIN results = 1..Len(results) /\ DOMAIN results' = 1..(Len(results) - 1)
      /\ \A k \in 1..(Len(results) - 1) : results'[k] = results[k + 1]
      /\ Len(results) \in Nat /\ Len(results) >= 1
      /\ Head(results) = results[1]
  OBVIOUS
<1>2. /\ \A p \in Finals' : p + 1 \in Finals /\ results'[p] = results[p + 1]
      /\ \A p \in Finals' : p \in Nat /\ p + 1 # 1
      /\ \A p \in Finals : p # 1 => p - 1 \in Finals' /\ results'[p - 1] = results[p]
      /\ 1 \in Finals <=> results[1].is_final
  <2>1. ASSUME NEW p \in Finals'
        PROVE  p + 1 \in Finals /\ results'[p] = results[p + 1] /\ p \in Nat /\ p + 1 # 1
    <3>1. p \in 1..(Len(results) - 1) /\ results'[p] = results[p + 1]
      BY <1>1 DEF Finals
    <3> QED
      BY <1>1, <3>1 DEF Finals
  <2>2. ASSUME NEW p \in Finals, p # 1
        PROVE  p - 1 \in Finals' /\ results'[p - 1] = results[p]
    <3>1. p \in 1..Len(results) /\ p - 1 \in 1..(Len(results) - 1)
      BY <1>1, <2>2 DEF Finals
    <3>2. results'[p - 1] = results[(p - 1) + 1] /\ (p - 1) + 1 = p
      BY <1>1, <3>1
    <3> QED
      BY <1>1, <3>1, <3>2 DEF Finals
  <2>3. 1 \in Finals <=> results[1].is_final
    BY <1>1 DEF Finals
  <2> QED
    BY <2>1, <2>2, <2>3
<1>3. ASSUME NEW x \in Marked'
      PROVE  x \in Marked /\ (results[1].is_final => x # results[1].item)
  <2>1. PICK p \in Finals' : x = results'[p].item
    BY <1>3 DEF Marked
  <2>2. p + 1 \in Finals /\ x = results[p + 1].item /\ p + 1 # 1
    BY <1>2, <2>1
  <2> QED
    BY <1>2, <2>2 DEF Marked, MarkedOnce
<1>4. ASSUME NEW x \in Marked, results[1].is_final => x # results[1].item
      PROVE  x \in Marked'
  <2>1. PICK p \in Finals : x = results[p].item
    BY <1>4 DEF Marked
  <2>2. p # 1
    BY <1>2, <1>4, <2>1
  <2> QED
    BY <1>2, <2>1, <2>2 DEF Marked
<1>5. MarkedOnce'
  <2> SUFFICES ASSUME NEW p \in Finals', NEW q \in Finals',
                      results'[p].item = results'[q].item
               PROVE  p = q
    BY DEF MarkedOnce
  <2>1. /\ p + 1 \in Finals /\ results'[p] = results[p + 1]
        /\ q + 1 \in Finals /\ results'[q] = results[q + 1]
        /\ p \in Nat /\ q \in Nat
    BY <1>2
  <2>2. results[p + 1].item = results[q + 1].item
    BY <2>1, Zenon
  <2>3. p + 1 = q + 1
    BY <2>1, <2>2, Zenon DEF MarkedOnce
  <2> QED
    BY <2>1, <2>3
<1>6. results[1].is_final => results[1].item \in Marked
  BY <1>2 DEF Marked
<1> QED
  BY <1>1, <1>3, <1>4, <1>5, <1>6

----------------------------------------------------------------------------
(* The workers *)

\* A worker acts only between the spawn and the end of the tasks.
LEMMA WorkersRun ==
  ASSUME Counted, NEW w \in Workers, Worker(w)
  PROVE  phase \in {"collect", "err"} /\ phase' = phase /\ UNCHANGED <<todo, feedVars>>
<1>1. /\ wpc[w] \notin {"off", "exit", "panic"}
      /\ phase' = phase /\ UNCHANGED <<todo, feedVars>>
  BY DEF Worker, Gate, Wake, Lock, Recv, RecvNone, ParseOk, ChunkerRejects,
         ReadFails, EmbedFails, GiveUp, EmbedOk, Panics, Send, SendFinal,
         SendFails, coordVars
<1>2. phase \in {"start", "delete", "collect", "join", "ok", "err"}
  BY DEF Counted, Typed, TypeOK
<1> QED
  BY <1>1, <1>2 DEF Counted, BeforeTasks, AtTheEnd, Stopped

\* No strategy gates the first worker out: while run_pipeline collects it
\* leaves only because the work channel is closed and empty.
LEMMA FirstWorkerStays ==
  ASSUME Counted, NEW w \in Workers, Worker(w), phase = "collect",
         wpc'[0] = "exit"
  PROVE  work' = <<>> /\ feeder' = "closed"
<1>1. 0 \in Workers /\ wpc \in [Workers -> {"off", "gate", "sleep", "lock", "recv",
                           "parse", "embed", "send", "final", "exit", "panic"}]
  <2>1. 0 \in Workers
    BY DEF Workers, Larger
  <2> QED
    BY <2>1 DEF Counted, Typed, TypeOK
<1>2. CASE wpc[0] = "exit"
  <2>1. work = <<>> /\ feeder = "closed"
    BY <1>2 DEF Counted, NoneMissing
  <2> QED
    BY <2>1 DEF Worker, Gate, Wake, Lock, Recv, RecvNone, ParseOk, ChunkerRejects,
         ReadFails, EmbedFails, GiveUp, EmbedOk, Panics, Send, SendFinal,
         SendFails, feedVars
<1>3. CASE wpc[0] # "exit"
  <2>1. CASE Gate(w)
    <3>1. PICK n \in Samples :
            wpc' = [wpc EXCEPT ![w] = IF w < n THEN "lock"
                                 ELSE IF feeder_done THEN "exit" ELSE "sleep"]
      BY <2>1 DEF Gate
    <3>2. n \in 1..Strategy.max /\ n \in Int /\ Strategy.max \in Nat
      <4>1. PICK mb \in Memory : n = CurrentWorkers(Strategy, mb)
        BY DEF Samples
      <4>2. Strategy.max \in Nat
        BY DEF Strategies
      <4>3. CurrentWorkers(Strategy, mb) \in 1..Strategy.max
        BY CurrentWorkersBounds
      <4> QED
        BY <4>1, <4>2, <4>3
    <3>3. w = 0
      BY <1>1, <1>3, <3>1
    <3>4. w < n
      BY <3>2, <3>3
    <3> QED
      BY <1>1, <3>1, <3>3, <3>4
  <2>2. CASE RecvNone(w)
    BY <2>2 DEF RecvNone, feedVars
  <2>3. CASE ~(Gate(w) \/ RecvNone(w))
    BY <1>1, <1>3, <2>3 DEF Worker, Wake, Lock, Recv, ParseOk, ChunkerRejects,
         ReadFails, EmbedFails, GiveUp, EmbedOk, Panics, Send, SendFinal,
         SendFails, Returned
  <2> QED
    BY <2>1, <2>2, <2>3
<1> QED
  BY <1>2, <1>3

\* What a worker's step leaves to show about the places.
LEMMA WorkerFrame ==
  ASSUME Counted, NEW w \in Workers, Worker(w),
         OnePlace', OnceEach', DoneCounts',
         phase = "collect" =>
           Queued \cup Taken \cup Marked \cup finished \cup failed \cup Lost
           \subseteq Queued' \cup Taken' \cup Marked' \cup finished' \cup failed' \cup Lost'
  PROVE  Counted'
<1>1. phase \in {"collect", "err"} /\ phase' = phase /\ UNCHANGED <<todo, feedVars>>
  BY WorkersRun
<1>2. Typed'
  BY TypedWorker DEF Counted
<1>3. BeforeTasks' /\ AtTheEnd'
  BY <1>1 DEF BeforeTasks, AtTheEnd
<1>4. ASSUME phase = "collect"
      PROVE  /\ todo' \subseteq unfed' \cup Queued' \cup Taken' \cup Marked' \cup finished'
                      \cup failed' \cup Lost'
             /\ feeder_done' => unfed' = {}
  BY <1>1, <1>4 DEF Counted, NoneMissing, feedVars, feeder_done
<1>5. NoneMissing'
  BY <1>1, <1>4, FirstWorkerStays DEF NoneMissing
<1> QED
  BY <1>2, <1>3, <1>5 DEF Counted

\* A worker that stays as busy as it was, with the item it has.
LEMMA StillTaken ==
  ASSUME Counted, UNCHANGED witem, \A v \in Workers : Busy(v)' <=> Busy(v)
  PROVE  Taken' = Taken /\ TakenOnce'
<1>1. TakenOnce
  BY DEF Counted, OnceEach
<1> QED
  BY <1>1 DEF Taken, TakenOnce

\* A worker that is no longer busy lets go of its item.
LEMMA LetGo ==
  ASSUME Counted, NEW w \in Workers, Busy(w), ~Busy(w)',
         \A v \in Workers \ {w} : (Busy(v)' <=> Busy(v)) /\ witem'[v] = witem[v]
  PROVE  witem[w] \in Taken /\ Taken' = Taken \ {witem[w]} /\ TakenOnce'
<1>1. TakenOnce
  BY DEF Counted, OnceEach
<1>2. TakenOnce'
  BY <1>1 DEF TakenOnce
<1>3. \A v \in Workers : Busy(v)' <=> Busy(v) /\ witem[v] # witem[w]
  BY <1>1 DEF TakenOnce
<1>4. \A v \in Workers : Busy(v)' => witem'[v] = witem[v]
  OBVIOUS
<1> QED
  BY <1>2, <1>3, <1>4 DEF Taken

\* Steps that move no item: the worker waits, chunks, embeds or sends a slice.
Idles(w) ==
  \/ Gate(w) \/ Wake(w) \/ Lock(w) \/ RecvNone(w) \/ ParseOk(w)
  \/ ChunkerRejects(w) \/ EmbedOk(w)

\* A step with which a worker neither takes nor leaves a file.
LEMMA CountedIdles ==
  ASSUME Counted, NEW w \in Workers, Idles(w) PROVE Counted'
<1>1. Worker(w)
  BY DEF Idles, Worker
<1>2. UNCHANGED <<todo, unfed, work, results, finished, failed, done, witem>>
  BY DEF Idles, Gate, Wake, Lock, RecvNone, ParseOk, ChunkerRejects, EmbedOk,
         coordVars, feedVars, outcomeVars
<1>3. wpc \in [Workers -> {"off", "gate", "sleep", "lock", "recv",
                           "parse", "embed", "send", "final", "exit", "panic"}]
  BY DEF Counted, Typed, TypeOK
<1>4. \A v \in Workers : (Busy(v)' <=> Busy(v)) /\ (wpc'[v] = "panic" <=> wpc[v] = "panic")
  BY <1>3 DEF Idles, Gate, Wake, Lock, RecvNone, ParseOk, ChunkerRejects, EmbedOk, Busy
<1>5. Taken' = Taken /\ TakenOnce'
  BY <1>2, <1>4, StillTaken
<1>6. Lost' = Lost
  BY <1>2, <1>4 DEF Lost
<1>7. Queued' = Queued /\ QueuedOnce'
  BY <1>2 DEF Queued, QueuedOnce, Counted, OnceEach
<1>8. Marked' = Marked /\ MarkedOnce'
  BY <1>2 DEF Marked, MarkedOnce, Finals, Counted, OnceEach
<1>9. OnePlace'
  BY <1>2, <1>5, <1>7, <1>8 DEF OnePlace, Counted
<1>10. DoneCounts'
  BY <1>2 DEF DoneCounts, Counted
<1> QED
  BY <1>1, <1>2, <1>5, <1>6, <1>7, <1>8, <1>9, <1>10, WorkerFrame DEF OnceEach

\* A micro-batch that is sent is not the final message of its file.
LEMMA CountedSend ==
  ASSUME Counted, NEW w \in Workers, Send(w) PROVE Counted'
<1> DEFINE r == [item |-> witem[w], from |-> wsent[w], upto |-> MicroBatchEnd(w),
                 is_final |-> FALSE]
<1>1. Worker(w)
  BY DEF Worker
<1>2. UNCHANGED <<todo, unfed, work, finished, failed, done, witem>>
  BY DEF Send, coordVars, feedVars, outcomeVars
<1>3. /\ wpc \in [Workers -> {"off", "gate", "sleep", "lock", "recv",
                           "parse", "embed", "send", "final", "exit", "panic"}]
      /\ results \in Seq(WorkResults)
  BY DEF Counted, Typed, TypeOK
<1>4. \A v \in Workers : (Busy(v)' <=> Busy(v)) /\ (wpc'[v] = "panic" <=> wpc[v] = "panic")
  BY <1>3 DEF Send, Busy
<1>5. Taken' = Taken /\ TakenOnce'
  BY <1>2, <1>4, StillTaken
<1>6. Lost' = Lost
  BY <1>2, <1>4 DEF Lost
<1>7. Queued' = Queued /\ QueuedOnce'
  BY <1>2 DEF Queued, QueuedOnce, Counted, OnceEach
<1>8. Marked' = Marked /\ MarkedOnce'
  <2>1. r \in WorkResults /\ r.is_final = FALSE
    <3>1. witem[w] \in Items /\ wsent[w] \in Nat /\ wsize[w] \in Nat
      BY DEF Send, Counted, Typed, TypeOK, SlicesFit
    <3>2. MicroBatchEnd(w) \in Nat
      BY <3>1 DEF MicroBatchEnd, Smaller
    <3> QED
      BY <3>1, <3>2 DEF WorkResults
  <2> HIDE DEF r
  <2>2. results' = Append(results, r)
    BY DEF Send, r
  <2> QED
    BY <1>3, <2>1, <2>2, MarkedAppend DEF Counted, OnceEach
<1>9. OnePlace'
  BY <1>2, <1>5, <1>7, <1>8 DEF OnePlace, Counted
<1>10. DoneCounts'
  BY <1>2 DEF DoneCounts, Counted
<1> QED
  BY <1>1, <1>2, <1>5, <1>6, <1>7, <1>8, <1>9, <1>10, WorkerFrame DEF OnceEach

\* A worker takes the file at the head of the work channel.
LEMMA CountedRecv ==
  ASSUME Counted, NEW w \in Workers, Recv(w) PROVE Counted'
<1> DEFINE i == Head(work)
<1>1. Worker(w)
  BY DEF Worker
<1>2. UNCHANGED <<todo, unfed, results, finished, failed, done>>
  BY DEF Recv, coordVars, feedVars, outcomeVars
<1>3. /\ wpc \in [Workers -> {"off", "gate", "sleep", "lock", "recv",
                           "parse", "embed", "send", "final", "exit", "panic"}]
      /\ witem \in [Workers -> 0..NItems] /\ work \in Seq(Items)
  BY DEF Counted, Typed, TypeOK
<1>4. i \in Queued /\ Queued' = Queued \ {i} /\ QueuedOnce'
  BY <1>3, QueuedTail DEF Recv, Counted, OnceEach
<1> HIDE DEF i
<1>5. /\ Busy(w)' /\ witem'[w] = i /\ ~Busy(w) /\ wpc[w] # "panic" /\ wpc'[w] # "panic"
      /\ \A v \in Workers \ {w} : wpc'[v] = wpc[v] /\ witem'[v] = witem[v]
  BY <1>3 DEF Recv, Busy, i
<1>6. \A v \in Workers \ {w} : Busy(v)' <=> Busy(v)
  BY <1>5 DEF Busy
<1>7. i \notin Taken
  BY <1>4 DEF Counted, OnePlace
<1>8. Taken' = Taken \cup {i}
  BY <1>5, <1>6 DEF Taken
<1>9. TakenOnce'
  <2>1. \A v \in Workers : Busy(v) => witem[v] # i
    BY <1>7 DEF Taken
  <2> QED
    BY <1>5, <1>6, <2>1 DEF TakenOnce, Counted, OnceEach
<1>10. Lost' = Lost
  BY <1>5 DEF Lost
<1>11. Marked' = Marked /\ MarkedOnce'
  BY <1>2 DEF Marked, MarkedOnce, Finals, Counted, OnceEach
<1>12. OnePlace'
  BY <1>2, <1>4, <1>8, <1>11 DEF OnePlace, Counted
<1>13. DoneCounts'
  BY <1>2 DEF DoneCounts, Counted
<1> QED
  BY <1>1, <1>2, <1>4, <1>8, <1>9, <1>10, <1>11, <1>12, <1>13, WorkerFrame DEF OnceEach

\* A worker that stops being busy and is not idle: it gives the file up,
\* panics, sends the final marker, or finds the receiver gone.
LEMMA Leaves ==
  ASSUME Counted, NEW w \in Workers,
         ReadFails(w) \/ EmbedFails(w) \/ Panics(w) \/ SendFinal(w) \/ SendFails(w)
  PROVE  /\ Worker(w) /\ Queued' = Queued /\ QueuedOnce'
         /\ witem[w] \in Taken /\ witem[w] \in Items
         /\ Taken' = Taken \ {witem[w]} /\ TakenOnce'
         /\ \A v \in Workers \ {w} : wpc'[v] = wpc[v] /\ witem'[v] = witem[v]
         /\ wpc[w] # "panic" /\ UNCHANGED <<todo, unfed, finished>>
<1>1. Worker(w)
  BY DEF Worker
<1>2. UNCHANGED <<todo, unfed, work, finished>>
  BY DEF ReadFails, EmbedFails, GiveUp, Panics, SendFinal, SendFails,
         coordVars, feedVars
<1>3. /\ wpc \in [Workers -> {"off", "gate", "sleep", "lock", "recv",
                           "parse", "embed", "send", "final", "exit", "panic"}]
      /\ witem \in [Workers -> 0..NItems]
  BY DEF Counted, Typed, TypeOK
<1>4. /\ Busy(w) /\ ~Busy(w)'
      /\ \A v \in Workers \ {w} : wpc'[v] = wpc[v] /\ witem'[v] = witem[v]
  BY <1>3 DEF ReadFails, EmbedFails, GiveUp, Panics, SendFinal, SendFails, Busy
<1>5. \A v \in Workers \ {w} : Busy(v)' <=> Busy(v)
  BY <1>4 DEF Busy
<1>6. witem[w] \in Taken /\ Taken' = Taken \ {witem[w]} /\ TakenOnce'
  BY <1>4, <1>5, LetGo
<1>7. Queued' = Queued /\ QueuedOnce'
  BY <1>2 DEF Queued, QueuedOnce, Counted, OnceEach
<1>8. witem[w] \in Items /\ wpc[w] # "panic"
  BY <1>4 DEF Busy, Counted, Typed, SlicesFit
<1> QED
  BY <1>1, <1>2, <1>4, <1>6, <1>7, <1>8

\* The queued items are finitely many, so adding one to a count adds one.
LEMMA FiniteItems ==
  ASSUME NEW S, S \subseteq Items
  PROVE  /\ IsFiniteSet(S) /\ Cardinality(S) \in Nat
         /\ \A x : x \notin S => Cardinality(S \cup {x}) = Cardinality(S) + 1
<1>1. IsFiniteSet(Items)
  <2>1. 1 \in Int /\ NItems \in Int
    OBVIOUS
  <2>2. IsFiniteSet(1..NItems)
    BY <2>1, FS_Interval, Zenon
  <2> QED
    BY <2>2 DEF Items
<1>2. IsFiniteSet(S)
  BY <1>1, FS_Subset
<1>3. Cardinality(S) \in Nat
  BY <1>2, FS_CardinalityType
<1> QED
  BY <1>2, <1>3, FS_AddElement

\* A file that cannot be read or embedded is counted as failed.
LEMMA CountedGiveUp ==
  ASSUME Counted, NEW w \in Workers, ReadFails(w) \/ EmbedFails(w) PROVE Counted'
<1> DEFINE i == witem[w]
<1>1. /\ Worker(w) /\ Queued' = Queued /\ QueuedOnce'
      /\ i \in Taken /\ i \in Items
      /\ Taken' = Taken \ {i} /\ TakenOnce'
      /\ \A v \in Workers \ {w} : wpc'[v] = wpc[v] /\ witem'[v] = witem[v]
      /\ wpc[w] # "panic" /\ UNCHANGED <<todo, unfed, finished>>
  BY Leaves
<1>2. /\ UNCHANGED results /\ done' = done + 1 /\ failed' = failed \cup {i}
      /\ wpc'[w] # "panic"
  BY DEF ReadFails, EmbedFails, GiveUp, Counted, Typed, TypeOK
<1> HIDE DEF i
<1>3. Lost' = Lost
  BY <1>1, <1>2 DEF Lost
<1>4. Marked' = Marked /\ MarkedOnce'
  BY <1>2 DEF Marked, MarkedOnce, Finals, Counted, OnceEach
<1>5. OnePlace'
  BY <1>1, <1>2, <1>4 DEF OnePlace, Counted
<1>6. DoneCounts'
  <2>1. i \notin failed
    BY <1>1 DEF Counted, OnePlace
  <2>2. /\ done \in Nat /\ done = Cardinality(finished) + Cardinality(failed)
        /\ failed \subseteq Items /\ finished \subseteq Items
    BY DEF Counted, Typed, TypeOK, DoneCounts
  <2>3. /\ Cardinality(finished) \in Nat /\ Cardinality(failed) \in Nat
        /\ Cardinality(failed \cup {i}) = Cardinality(failed) + 1
    BY <2>1, <2>2, FiniteItems
  <2>4. done' = Cardinality(finished) + Cardinality(failed \cup {i})
    BY <1>2, <2>2, <2>3
  <2> QED
    BY <1>1, <1>2, <2>4 DEF DoneCounts
<1> QED
  BY <1>1, <1>2, <1>3, <1>4, <1>5, <1>6, WorkerFrame DEF OnceEach

\* The file of a worker that panics is lost, and known to be.
LEMMA CountedPanics ==
  ASSUME Counted, NEW w \in Workers, Panics(w) PROVE Counted'
<1> DEFINE i == witem[w]
<1>1. /\ Worker(w) /\ Queued' = Queued /\ QueuedOnce'
      /\ i \in Taken /\ i \in Items
      /\ Taken' = Taken \ {i} /\ TakenOnce'
      /\ \A v \in Workers \ {w} : wpc'[v] = wpc[v] /\ witem'[v] = witem[v]
      /\ wpc[w] # "panic" /\ UNCHANGED <<todo, unfed, finished>>
  BY Leaves
<1>2. /\ UNCHANGED <<results, done, failed>>
      /\ wpc'[w] = "panic" /\ witem'[w] = i
  BY DEF Panics, Counted, Typed, TypeOK
<1> HIDE DEF i
<1>3. Lost' = Lost \cup {i}
  BY <1>1, <1>2 DEF Lost
<1>4. Marked' = Marked /\ MarkedOnce'
  BY <1>2 DEF Marked, MarkedOnce, Finals, Counted, OnceEach
<1>5. OnePlace'
  BY <1>1, <1>2, <1>4 DEF OnePlace, Counted
<1>6. DoneCounts'
  BY <1>1, <1>2 DEF DoneCounts, Counted
<1> QED
  BY <1>1, <1>2, <1>3, <1>4, <1>5, <1>6, WorkerFrame DEF OnceEach

\* The final message takes the file over from its worker.
LEMMA CountedSendFinal ==
  ASSUME Counted, NEW w \in Workers, SendFinal(w) PROVE Counted'
<1> DEFINE i == witem[w]
           r == [item |-> witem[w], from |-> wsent[w], upto |-> wsent[w],
                 is_final |-> TRUE]
<1>1. /\ Worker(w) /\ Queued' = Queued /\ QueuedOnce'
      /\ i \in Taken /\ i \in Items
      /\ Taken' = Taken \ {i} /\ TakenOnce'
      /\ \A v \in Workers \ {w} : wpc'[v] = wpc[v] /\ witem'[v] = witem[v]
      /\ wpc[w] # "panic" /\ UNCHANGED <<todo, unfed, finished>>
  BY Leaves
<1>2. /\ UNCHANGED <<done, failed>> /\ wpc'[w] # "panic"
  BY DEF SendFinal, Counted, Typed, TypeOK, outcomeVars
<1>3. Lost' = Lost
  BY <1>1, <1>2 DEF Lost
<1>4. Marked' = Marked \cup {i} /\ MarkedOnce'
  <2>1. r \in WorkResults /\ r.is_final = TRUE /\ r.item = i
    BY <1>1 DEF WorkResults, Counted, Typed, TypeOK
  <2>2. i \notin Marked
    BY <1>1 DEF Counted, OnePlace
  <2> HIDE DEF r, i
  <2>3. results' = Append(results, r)
    BY DEF SendFinal, r
  <2>4. results \in Seq(WorkResults) /\ MarkedOnce
    BY DEF Counted, Typed, TypeOK, OnceEach
  <2> QED
    BY <2>1, <2>2, <2>3, <2>4, MarkedAppend
<1> HIDE DEF i
<1>5. OnePlace'
  BY <1>1, <1>2, <1>4 DEF OnePlace, Counted
<1>6. DoneCounts'
  BY <1>1, <1>2 DEF DoneCounts, Counted
<1> QED
  BY <1>1, <1>2, <1>3, <1>4, <1>5, <1>6, WorkerFrame DEF OnceEach

\* A worker that finds the result channel closed drops its file.
LEMMA CountedSendFails ==
  ASSUME Counted, NEW w \in Workers, SendFails(w) PROVE Counted'
<1> DEFINE i == witem[w]
<1>1. /\ Worker(w) /\ Queued' = Queued /\ QueuedOnce'
      /\ Taken' = Taken \ {i} /\ TakenOnce'
      /\ UNCHANGED <<todo, unfed, finished>>
  BY Leaves
<1>2. UNCHANGED <<results, done, failed>> /\ phase # "collect"
  BY DEF SendFails, Returned, outcomeVars
<1>4. Marked' = Marked /\ MarkedOnce'
  BY <1>2 DEF Marked, MarkedOnce, Finals, Counted, OnceEach
<1>5. OnePlace'
  BY <1>1, <1>2, <1>4 DEF OnePlace, Counted
<1>6. DoneCounts'
  BY <1>1, <1>2 DEF DoneCounts, Counted
<1> QED
  BY <1>1, <1>2, <1>4, <1>5, <1>6, WorkerFrame DEF OnceEach

\* No step of a worker counts a file twice or loses one.
LEMMA CountedWorker == ASSUME Counted, NEW w \in Workers, Worker(w) PROVE Counted'
<1> QED
  BY CountedIdles, CountedSend, CountedRecv, CountedGiveUp, CountedPanics,
     CountedSendFinal, CountedSendFails DEF Worker, Idles

----------------------------------------------------------------------------
(* The coordinator and the feeder *)

\* Nothing is counted at first.
LEMMA CountedInit == Init => Counted
<1> SUFFICES ASSUME Init PROVE Counted
  OBVIOUS
<1>1. Typed
  BY TypedInit
<1>2. /\ work = <<>> /\ results = <<>> /\ unfed = {} /\ finished = {} /\ failed = {}
      /\ todo = {} /\ done = 0 /\ phase = "start" /\ \A w \in Workers : wpc[w] = "off"
  BY DEF Init
<1>3. Queued = {} /\ Taken = {} /\ Marked = {} /\ OnceEach
  BY <1>2 DEF Queued, Taken, Marked, Finals, Busy, OnceEach, QueuedOnce, TakenOnce,
              MarkedOnce
<1>4. OnePlace
  BY <1>2, <1>3 DEF OnePlace
<1>5. DoneCounts
  BY <1>2, FS_EmptySet DEF DoneCounts
<1> QED
  BY <1>1, <1>2, <1>3, <1>4, <1>5 DEF Counted, BeforeTasks, NoneMissing, AtTheEnd

\* Nothing is queued yet in the first two phases.
LEMMA NothingYet ==
  ASSUME Counted, phase \in {"start", "delete"}
  PROVE  /\ unfed = {} /\ Queued = {} /\ Taken = {} /\ Marked = {}
         /\ finished = {} /\ failed = {} /\ work = <<>> /\ results = <<>>
<1>1. /\ unfed = {} /\ work = <<>> /\ results = <<>> /\ finished = {} /\ failed = {}
      /\ \A w \in Workers : wpc[w] = "off"
  BY DEF Counted, BeforeTasks
<1> QED
  BY <1>1 DEF Queued, Taken, Marked, Finals, Busy

\* The listing becomes the files to feed, each once.
LEMMA CountedSetup == Counted /\ Setup => Counted'
<1> SUFFICES ASSUME Counted, Setup PROVE Counted'
  OBVIOUS
<1>1. Typed'
  BY TypedSetup DEF Counted
<1>2. phase \in {"start", "delete"}
  BY DEF Setup, DetectChanges, SetupFails, DeleteRemoved, DeleteFails
<1>3. /\ unfed = {} /\ Queued = {} /\ Taken = {} /\ Marked = {}
      /\ finished = {} /\ failed = {} /\ work = <<>> /\ results = <<>>
  BY <1>2, NothingYet
<1>4. UNCHANGED <<work, results, witem, finished, failed, done>>
  BY DEF Setup, DetectChanges, SetupFails, DeleteRemoved, DeleteFails, coordVars,
         localVars, outcomeVars
<1>5. Queued' = {} /\ Marked' = {} /\ QueuedOnce' /\ MarkedOnce'
  BY <1>3, <1>4 DEF Queued, Marked, Finals, QueuedOnce, MarkedOnce
<1>6. \A w \in Workers : wpc[w] = "off" /\ wpc'[w] \in {"off", "gate"}
  BY <1>2 DEF Setup, DetectChanges, SetupFails, DeleteRemoved, DeleteFails, localVars,
         Counted, BeforeTasks
<1>7. Taken' = {} /\ TakenOnce'
  BY <1>6 DEF Taken, TakenOnce, Busy
<1>8. unfed' \subseteq todo'
  BY <1>3 DEF Setup, DetectChanges, SetupFails, DeleteRemoved, DeleteFails, feedVars
<1>9. OnePlace'
  BY <1>3, <1>4, <1>5, <1>7, <1>8 DEF OnePlace
<1>10. DoneCounts'
  BY <1>4 DEF DoneCounts, Counted
<1>11. BeforeTasks' /\ AtTheEnd'
  BY <1>2, <1>3, <1>4, <1>6 DEF Setup, DetectChanges, SetupFails, DeleteRemoved,
     DeleteFails, BeforeTasks, AtTheEnd, feedVars, localVars
<1>12. NoneMissing'
  <2> SUFFICES ASSUME phase' \in {"collect", "join"} PROVE NoneMissing'
    BY DEF NoneMissing
  <2>1. DeleteRemoved /\ todo # {}
    BY <1>2 DEF Setup, DetectChanges, SetupFails, DeleteRemoved, DeleteFails
  <2>2. todo' = unfed' /\ feeder' = "feeding"
    BY <2>1 DEF DeleteRemoved
  <2>3. wpc'[0] = "gate"
    <3>1. 0 \in Workers
      BY DEF Workers, Larger
    <3> QED
      BY <2>1, <3>1 DEF DeleteRemoved
  <2> QED
    BY <2>2, <2>3 DEF NoneMissing, feeder_done
<1> QED
  BY <1>1, <1>5, <1>7, <1>9, <1>10, <1>11, <1>12 DEF Counted, OnceEach

\* A file that is fed leaves the list and enters the work channel.
LEMMA CountedFeeding == Counted /\ Feeding => Counted'
<1> SUFFICES ASSUME Counted, Feeding PROVE Counted'
  OBVIOUS
<1>1. Typed'
  BY TypedFeeding DEF Counted
<1>2. UNCHANGED <<phase, todo, results, wpc, witem, finished, failed, done>>
  BY DEF Feeding, Feed, FeederDone, CloseWork, coordVars, localVars, outcomeVars
<1>3. /\ Taken' = Taken /\ Marked' = Marked /\ Lost' = Lost
      /\ TakenOnce' /\ MarkedOnce' /\ DoneCounts' /\ AtTheEnd'
  BY <1>2 DEF Taken, Marked, Lost, Finals, Busy, TakenOnce, MarkedOnce, Counted,
     OnceEach, DoneCounts, AtTheEnd, Stopped
<1>4. CASE Feed
  <2>1. PICK i \in unfed : work' = Append(work, i) /\ unfed' = unfed \ {i}
    BY <1>4 DEF Feed
  <2>2. work \in Seq(Items) /\ i \in Items
    BY DEF Counted, Typed, TypeOK
  <2>3. i \notin Queued
    BY DEF Counted, OnePlace
  <2>4. Queued' = Queued \cup {i} /\ QueuedOnce'
    BY <2>1, <2>2, <2>3, QueuedAppend DEF Counted, OnceEach
  <2>5. OnePlace'
    BY <1>2, <1>3, <2>1, <2>4 DEF OnePlace, Counted
  <2>6. BeforeTasks'
    BY <1>2, <2>1 DEF BeforeTasks, Counted
  <2>7. NoneMissing'
    BY <1>2, <1>3, <1>4, <2>1, <2>4 DEF NoneMissing, Counted, feeder_done, Feed
  <2> QED
    BY <1>1, <1>3, <2>4, <2>5, <2>6, <2>7 DEF Counted, OnceEach
<1>5. CASE FeederDone \/ CloseWork
  <2>1. UNCHANGED <<work, unfed>>
    BY <1>5 DEF FeederDone, CloseWork
  <2>2. Queued' = Queued /\ QueuedOnce'
    BY <2>1 DEF Queued, QueuedOnce, Counted, OnceEach
  <2>3. OnePlace'
    BY <1>2, <1>3, <2>1, <2>2 DEF OnePlace, Counted
  <2>4. BeforeTasks'
    BY <1>2, <2>1 DEF BeforeTasks, Counted
  <2>5. NoneMissing'
    BY <1>2, <1>3, <1>5, <2>1, <2>2 DEF NoneMissing, Counted, feeder_done,
       FeederDone, CloseWork, WorkRxDropped, Returned
  <2> QED
    BY <1>1, <1>3, <2>2, <2>3, <2>4, <2>5 DEF Counted, OnceEach
<1> QED
  BY <1>4, <1>5 DEF Feeding

\* The coordinator counts a file when it reads its final message.
LEMMA CountedRecvResult == Counted /\ RecvResult => Counted'
<1> SUFFICES ASSUME Counted, RecvResult PROVE Counted'
  OBVIOUS
<1> DEFINE h == Head(results)
<1>1. Typed'
  BY TypedCollect DEF Counted, Collect
<1>2. UNCHANGED <<phase, todo, unfed, feeder, work, wpc, witem, failed>> /\ phase = "collect"
  BY DEF RecvResult, feedVars, localVars, outcomeVars
<1>3. /\ Taken' = Taken /\ Queued' = Queued /\ Lost' = Lost
      /\ TakenOnce' /\ QueuedOnce' /\ BeforeTasks' /\ AtTheEnd'
  BY <1>2 DEF Taken, Queued, Lost, Busy, TakenOnce, QueuedOnce, Counted,
     OnceEach, BeforeTasks, AtTheEnd
<1>4. /\ h.is_final => h.item \in Marked
      /\ Marked' = IF h.is_final THEN Marked \ {h.item} ELSE Marked
      /\ MarkedOnce'
  BY MarkedTail DEF RecvResult, Counted, Typed, TypeOK, OnceEach
<1>5. /\ h.is_final => finished' = finished \cup {h.item} /\ done' = done + 1
      /\ ~h.is_final => UNCHANGED <<finished, done>>
  BY DEF RecvResult
<1> HIDE DEF h
<1>6. CASE h.is_final
  <2>1. OnePlace'
    BY <1>2, <1>3, <1>4, <1>5, <1>6 DEF OnePlace, Counted
  <2>2. DoneCounts'
    <3>1. h.item \notin finished
      BY <1>4, <1>6 DEF Counted, OnePlace
    <3>2. /\ done \in Nat /\ done = Cardinality(finished) + Cardinality(failed)
          /\ failed \subseteq Items /\ finished \subseteq Items
      BY DEF Counted, Typed, TypeOK, DoneCounts
    <3>3. /\ Cardinality(finished) \in Nat /\ Cardinality(failed) \in Nat
          /\ Cardinality(finished \cup {h.item}) = Cardinality(finished) + 1
      BY <3>1, <3>2, FiniteItems
    <3>4. done' = Cardinality(finished \cup {h.item}) + Cardinality(failed)
      BY <1>5, <1>6, <3>2, <3>3
    <3> QED
      BY <1>2, <1>5, <1>6, <3>4 DEF DoneCounts
  <2>3. NoneMissing'
    BY <1>2, <1>3, <1>4, <1>5, <1>6 DEF NoneMissing, Counted, feeder_done
  <2> QED
    BY <1>1, <1>3, <1>4, <2>1, <2>2, <2>3 DEF Counted, OnceEach
<1>7. CASE ~h.is_final
  <2>1. OnePlace' /\ DoneCounts'
    BY <1>2, <1>3, <1>4, <1>5, <1>7 DEF OnePlace, DoneCounts, Counted
  <2>2. NoneMissing'
    BY <1>2, <1>3, <1>4, <1>5, <1>7 DEF NoneMissing, Counted, feeder_done
  <2> QED
    BY <1>1, <1>3, <1>4, <2>1, <2>2 DEF Counted, OnceEach
<1> QED
  BY <1>6, <1>7

\* When the coordinator joins, the first worker has left or panicked; if no
\* worker panicked, the channels are empty and every item was counted.
LEMMA AllCounted ==
  ASSUME Counted, phase = "join", \A w \in Workers : wpc[w] # "panic"
  PROVE  finished \cup failed = todo /\ \A w \in Workers : wpc[w] = "exit"
<1>1. results = <<>> /\ \A w \in Workers : wpc[w] = "exit"
  BY DEF Counted, AtTheEnd, Stopped
<1>2. 0 \in Workers
  BY DEF Workers, Larger
<1>3. work = <<>> /\ unfed = {}
  BY <1>1, <1>2 DEF Counted, NoneMissing, feeder_done
<1>4. Queued = {} /\ Taken = {} /\ Marked = {} /\ Lost = {}
  BY <1>1, <1>3 DEF Queued, Taken, Marked, Finals, Lost, Busy
<1>5. todo \subseteq finished \cup failed
  BY <1>3, <1>4 DEF Counted, NoneMissing
<1>6. finished \cup failed \subseteq todo
  BY DEF Counted, OnePlace
<1> QED
  BY <1>1, <1>5, <1>6

\* The end of the collecting phase finds every file counted.
LEMMA CountedCollect == Counted /\ Collect => Counted'
<1> SUFFICES ASSUME Counted, Collect, ~RecvResult PROVE Counted'
  BY CountedRecvResult
<1>1. Typed'
  BY TypedCollect DEF Counted
<1>2. /\ UNCHANGED <<todo, unfed, feeder, work, results, wpc, witem, finished, failed, done>>
      /\ phase \in {"collect", "join"}
  BY DEF Collect, PushChunk, PushAndUpsert, PushUpsertFails, FlushRest, FlushRestFails,
         ResultsClosed, Join, feedVars, localVars, outcomeVars
<1>3. /\ Taken' = Taken /\ Queued' = Queued /\ Lost' = Lost /\ Marked' = Marked
      /\ OnceEach'
  BY <1>2 DEF Taken, Queued, Lost, Marked, Finals, Busy, TakenOnce, QueuedOnce,
     MarkedOnce, Counted, OnceEach
<1>4. OnePlace' /\ DoneCounts'
  BY <1>2, <1>3 DEF OnePlace, DoneCounts, Counted
<1>5. NoneMissing'
  BY <1>2, <1>3 DEF NoneMissing, Counted, feeder_done
<1>6. phase' \notin {"start", "delete"} /\ BeforeTasks'
  <2>1. phase' \notin {"start", "delete"}
    BY <1>2 DEF Collect, PushChunk, PushAndUpsert, PushUpsertFails, FlushRest,
                FlushRestFails, Join
  <2> QED
    BY <2>1 DEF BeforeTasks
<1>7. AtTheEnd'
  <2>1. CASE Join
    <3>1. CASE \E w \in Workers : wpc[w] = "panic"
      BY <2>1, <3>1 DEF Join, AtTheEnd
    <3>2. CASE ~\E w \in Workers : wpc[w] = "panic"
      <4>1. finished \cup failed = todo /\ \A w \in Workers : wpc[w] = "exit"
        BY <2>1, <3>2, AllCounted DEF Join
      <4>2. phase' = "ok"
        BY <2>1, <3>2 DEF Join
      <4> QED
        BY <1>2, <4>1, <4>2 DEF AtTheEnd
    <3> QED
      BY <3>1, <3>2
  <2>2. CASE FlushRest
    BY <1>2, <2>2 DEF FlushRest, ResultsClosed, AtTheEnd, Stopped
  <2>3. CASE ~(Join \/ FlushRest)
    BY <2>3 DEF Collect, PushChunk, PushAndUpsert, PushUpsertFails, FlushRestFails,
                ResultsClosed, AtTheEnd
  <2> QED
    BY <2>1, <2>2, <2>3
<1> QED
  BY <1>1, <1>3, <1>4, <1>5, <1>6, <1>7 DEF Counted

----------------------------------------------------------------------------
\* The invariant is inductive.
LEMMA CountedNext == Counted /\ [Next]_vars => Counted'
<1> SUFFICES ASSUME Counted, [Next]_vars PROVE Counted'
  OBVIOUS
<1>1. ASSUME UNCHANGED vars PROVE Counted'
  <2>1. UNCHANGED <<phase, todo, unfed, feeder, work, results, wpc, witem, finished,
                    failed, done>>
    BY <1>1 DEF vars, coordVars, feedVars, localVars, outcomeVars
  <2>2. Typed'
    BY <1>1, TypedNext DEF Counted
  <2>3. OnceEach' /\ Taken' = Taken /\ Queued' = Queued /\ Lost' = Lost /\ Marked' = Marked
    BY <2>1 DEF Taken, Queued, Lost, Marked, Finals, Busy, TakenOnce, QueuedOnce,
       MarkedOnce, Counted, OnceEach
  <2>4. OnePlace' /\ DoneCounts'
    BY <2>1, <2>3 DEF OnePlace, DoneCounts, Counted
  <2>5. BeforeTasks' /\ AtTheEnd'
    BY <2>1 DEF BeforeTasks, AtTheEnd, Stopped, Counted
  <2>6. NoneMissing'
    BY <2>1, <2>3 DEF NoneMissing, Counted, feeder_done
  <2> QED
    BY <2>2, <2>3, <2>4, <2>5, <2>6 DEF Counted
<1>2. ASSUME NEW w \in Workers, Worker(w) PROVE Counted'
  BY <1>2, CountedWorker
<1> QED
  BY <1>1, <1>2, CountedSetup, CountedFeeding, CountedCollect DEF Next, Rest

\* The counts: disjoint finite sets add up, and a part is at most the whole.
LEMMA CountedSuffices == Counted => EveryFileCountedOnce
<1> SUFFICES ASSUME Counted PROVE EveryFileCountedOnce
  OBVIOUS
<1>1. /\ finished \cup failed \subseteq todo /\ finished \cap failed = {}
      /\ todo \subseteq Items /\ finished \subseteq Items /\ failed \subseteq Items
  BY DEF Counted, OnePlace, Typed, TypeOK
<1>2. /\ IsFiniteSet(todo) /\ IsFiniteSet(finished) /\ IsFiniteSet(failed)
      /\ Cardinality(finished) \in Nat /\ Cardinality(failed) \in Nat
  BY <1>1, FiniteItems
<1>3. Cardinality(finished \cup failed) = Cardinality(finished) + Cardinality(failed)
  <2>1. Cardinality(finished \cup failed) =
          Cardinality(finished) + Cardinality(failed) - Cardinality(finished \cap failed)
    BY <1>2, FS_Union
  <2>2. Cardinality(finished \cap failed) = 0
    BY <1>1, FS_EmptySet
  <2> QED
    BY <1>2, <2>1, <2>2
<1>4. Cardinality(finished \cup failed) <= Cardinality(todo)
  BY <1>1, <1>2, FS_Subset
<1>5. done = Cardinality(finished \cup failed)
  BY <1>3 DEF Counted, DoneCounts
<1>6. phase = "ok" => finished \cup failed = todo
  BY DEF Counted, AtTheEnd
<1> QED
  BY <1>4, <1>5, <1>6 DEF EveryFileCountedOnce

\* run_pipeline counts every queued file done at most once, and when it
\* succeeds exactly once: no file stays in a channel or with a worker.
THEOREM EveryFileIsCountedOnce == Spec => []EveryFileCountedOnce
<1> QED
  BY CountedInit, CountedNext, CountedSuffices, PTL DEF Spec

\* Every number is at most itself.
LEMMA IntReflexive == \A n \in Int : n <= n
OBVIOUS

\* The key recorded for a queued item is its own when no two items share a path.
LEMMA OwnKey ==
  ASSUME Counted, \A i, j \in Items : Path[i] = Path[j] => i = j, NEW i \in todo
  PROVE  ToProcessKey(i) = Key[i]
<1>1. todo \subseteq Items /\ Items \subseteq Int
  BY DEF Counted, Typed, TypeOK, Items
<1>2. \A j \in todo : Path[j] = Path[i] => j = i
  BY <1>1, Zenon
<1>3. i \in todo /\ Path[i] = Path[i] /\ \A k \in todo : Path[k] = Path[i] => k <= i
  <2>1. i <= i
    <3>1. i \in Int
      BY <1>1, Zenon
    <3> QED
      BY <3>1, IntReflexive, Zenon
  <2> QED
    BY <1>2, <2>1, Zenon
<1> QED
  BY <1>2, <1>3 DEF ToProcessKey

\* A file a worker gave up does not have its revision recorded by a
\* successful run, when no two listed items share a path or a revision key.
\* (With a repeated path to_process_keys keeps one key for both items, and a
\* file given up can be recorded under the other's final marker.)
THEOREM FailedFilesAreNotRecorded ==
  ASSUME \A i, j \in Items : Path[i] = Path[j] \/ Key[i] = Key[j] => i = j
  PROVE  Spec => []FailedNotRecorded
<1>1. Counted => FailedNotRecorded
  <2> SUFFICES ASSUME Counted, NEW i \in failed, ToProcessKey(i) \in Processed
               PROVE  FALSE
    BY DEF FailedNotRecorded
  <2>1. PICK j \in finished : ToProcessKey(j) = ToProcessKey(i)
    BY DEF Processed
  <2>2. i \in todo /\ j \in todo /\ i # j /\ todo \subseteq Items
    BY DEF Counted, OnePlace, Typed, TypeOK
  <2>3. ToProcessKey(i) = Key[i] /\ ToProcessKey(j) = Key[j]
    BY <2>2, OwnKey
  <2> QED
    BY <2>1, <2>2, <2>3
<1> QED
  BY <1>1, CountedInit, CountedNext, PTL DEF Spec
=============================================================================

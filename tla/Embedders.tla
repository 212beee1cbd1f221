------------------------------ MODULE Embedders ------------------------------
(***************************************************************************)
(* The embedding providers (packages/virage-embedder-openai: embedder.ts   *)
(* and semantic-cache.ts; virage-embedder-transformers;                    *)
(* virage-embedder-fastembed) behind EmbedderProcessor.embedBatch and      *)
(* withRetry (virage-core/src/core: embedder.ts, utils.ts).  Calls run     *)
(* side by side (indexing, searches); they share the model that is loaded, *)
(* the cache in memory and its file, which outlives the process and the    *)
(* model.                                                                  *)
(*                                                                         *)
(* A vector is the sequence of its components, each named by the text and  *)
(* model it was computed from.                                             *)
(***************************************************************************)
EXTENDS Naturals, Sequences, FiniteSets, SequencesExt

CONSTANTS
    Callers,
    CallTexts,      \* what a call may ask for: sequences of texts
    CallModels,     \* models a process may be started with
    KeyOf,          \* hashText: the key of each text, 32 bits and so not injective
    Alike,          \* pairs of texts whose vectors reach similarityThreshold
    MaxEntries,     \* entries that fit maxSizeMB
    Width,          \* components every model computes
    DimensionsGiven,    \* what `dimensions' may be set to
    DefaultDimensions,  \* 1536, which the OpenAI embedder does not send
    MaxRetries,
    MaxErrors,      \* bound: failures of the service or of loading
    MaxRestarts     \* bound: restarts of the process

VARIABLES
    provider,       \* which one, its cache strategy ("none" without) and persistence
    callModel,      \* the model the process was started with
    lru, semantic,  \* SemanticCache in memory
    sqlite,         \* its file: what each key holds
    pipe,           \* the local model: "no", "loading", "ready" or "failed"
    calls,
    errors, restarts

embedderVars == <<provider, callModel, lru, semantic, sqlite, pipe, calls, errors, restarts>>

\* No more components are asked for than the model has: transformers would cut
\* into the next text's.
ASSUME VectorBounds == DimensionsGiven \subseteq 1..Width

CallableTexts == UNION {Range(s) : s \in CallTexts}
Missing       == <<>>
Undefined     == <<"undefined">>
IdleCall        == [phase |-> "idle", texts |-> <<>>, results |-> <<>>, open |-> {}, attempt |-> 0]

Providers ==
    {[kind |-> "openai", strategy |-> s, persistence |-> p, dimensions |-> d] :
        s \in {"exact", "semantic"}, p \in {"memory", "sqlite"}, d \in DimensionsGiven}
    \cup {[kind |-> k, strategy |-> "none", persistence |-> "memory", dimensions |-> d] :
        k \in {"openai", "transformers", "fastembed"}, d \in DimensionsGiven}

EmbedderInit ==
    /\ provider \in Providers /\ callModel \in CallModels
    /\ lru = <<>> /\ semantic = {} /\ sqlite = [k \in Range(KeyOf) |-> Missing]
    /\ pipe = "no"
    /\ calls = [c \in Callers |-> IdleCall]
    /\ errors = 0 /\ restarts = 0

Cached == provider.strategy # "none"
Local  == provider.kind # "openai"

\* What a model computes, and what the service answers: as many components as it
\* was told, or all of them when it was told nothing.
Computed(t, m) == [n \in 1..Width |-> <<t, m, n>>]
Vector(t, m) ==
    IF provider.dimensions # DefaultDimensions
    THEN SubSeq(Computed(t, m), 1, provider.dimensions)
    ELSE Computed(t, m)

-----------------------------------------------------------------------------
(* withRetry.                                                              *)

\* What a failure says: no access, another client error, 429, anything else.
Failures       == {"denied", "client", "rateLimit", "other"}
IsRetryable(e) == e \in {"rateLimit", "other"}

\* Another attempt begins from the start; the last error is the caller's.
Rejected(call, e) ==
    IF IsRetryable(e) /\ call.attempt < MaxRetries
    THEN [call EXCEPT !.phase = "begin", !.attempt = @ + 1, !.results = <<>>, !.open = {}]
    ELSE [IdleCall EXCEPT !.phase = "failed"]

ErrorOf(c, e) ==
    /\ errors < MaxErrors /\ errors' = errors + 1
    /\ calls' = [calls EXCEPT ![c] = Rejected(@, e)]

\* The vectors are handed over, if there is one for each text (embedBatch).
Answer(call, results) ==
    IF Len(results) = Len(call.texts)
    THEN [call EXCEPT !.phase = "done", !.results = results, !.open = {}]
    ELSE [IdleCall EXCEPT !.phase = "failed"]

Call(c) ==
    /\ calls[c].phase \in {"idle", "done", "failed"}
    /\ \E texts \in CallTexts : calls' = [calls EXCEPT ![c] = [IdleCall EXCEPT !.phase = "begin", !.texts = texts]]
    /\ UNCHANGED <<provider, callModel, lru, semantic, sqlite, pipe, errors, restarts>>

-----------------------------------------------------------------------------
(* SemanticCache.                                                          *)

Entry(l, k) == {n \in DOMAIN l : l[n].key = k}
MemoryHit(t) == IF Entry(lru, KeyOf[t]) = {} THEN Missing ELSE lru[CHOOSE n \in Entry(lru, KeyOf[t]) : TRUE].vector

\* lruPut: the oldest entry makes room, even when the key is there already.
LruPut(l, k, v) ==
    LET kept == IF Len(l) >= MaxEntries /\ l # <<>> THEN Tail(l) ELSE l
    IN  Append(SelectSeq(kept, LAMBDA x : x.key # k), [key |-> k, vector |-> v])

\* A semantic hit: an entry alike, the text's own when there is one.
Nearest(t) ==
    IF Vector(t, callModel) \in semantic THEN {Vector(t, callModel)}
    ELSE {v \in semantic : \E s \in CallableTexts : <<s, t>> \in Alike /\ v = Vector(s, callModel)}

\* What is in memory is found at once, for all texts of a batch; the other lookups
\* go on side by side.
BeginCached(c) ==
    /\ calls[c].phase = "begin" /\ Cached
    /\ LET texts == calls[c].texts
           found == [n \in DOMAIN texts |-> MemoryHit(texts[n])]
       IN  calls' = [calls EXCEPT ![c].phase = "looking", ![c].results = found,
                                  ![c].open = {n \in DOMAIN texts : found[n] = Missing}]
    /\ UNCHANGED <<provider, callModel, lru, semantic, sqlite, pipe, errors, restarts>>

\* The file, then a vector alike: for that the text itself is embedded first, and
\* a failure rejects the whole batch.  The vector found is not stored again.
LookUp(c, n) ==
    /\ calls[c].phase = "looking" /\ n \in calls[c].open
    /\ LET t   == calls[c].texts[n]
           row == IF provider.persistence = "sqlite" THEN sqlite[KeyOf[t]] ELSE Missing
           found(v) == [calls EXCEPT ![c].open = @ \ {n}, ![c].results[n] = v]
       IN  \/ /\ row # Missing
              /\ calls' = found(row) /\ lru' = LruPut(lru, KeyOf[t], row)
              /\ UNCHANGED errors
           \/ /\ row = Missing
              /\ IF provider.strategy = "semantic" /\ semantic # {} /\ Nearest(t) # {}
                 THEN \E v \in Nearest(t) : calls' = found(v)
                 ELSE calls' = found(Missing)
              /\ UNCHANGED <<lru, errors>>
           \/ /\ row = Missing /\ provider.strategy = "semantic" /\ semantic # {}
              /\ \E e \in Failures : ErrorOf(c, e)
              /\ UNCHANGED lru
    /\ UNCHANGED <<provider, callModel, semantic, sqlite, pipe, restarts>>

Misses(call) == {n \in DOMAIN call.results : call.results[n] = Missing}

LookedUp(c) ==
    /\ calls[c].phase = "looking" /\ calls[c].open = {}
    /\ calls' = [calls EXCEPT ![c] = IF Misses(@) = {} THEN Answer(@, @.results)
                                     ELSE [@ EXCEPT !.phase = "asking", !.open = Misses(calls[c])]]
    /\ UNCHANGED <<provider, callModel, lru, semantic, sqlite, pipe, errors, restarts>>

\* set: one vector after the other.  Where the service sent none the cache throws.
Save(c) ==
    /\ calls[c].phase = "saving"
    /\ LET n == CHOOSE k \in calls[c].open : \A j \in calls[c].open : k <= j
           t == calls[c].texts[n]
           v == calls[c].results[n]
       IN  IF v = Undefined
           THEN /\ calls' = [calls EXCEPT ![c] = Rejected(@, "other")]
                /\ UNCHANGED <<lru, semantic, sqlite>>
           ELSE /\ lru' = LruPut(lru, KeyOf[t], v)
                /\ semantic' = IF provider.strategy = "semantic" THEN semantic \cup {v} ELSE semantic
                /\ sqlite' = IF provider.persistence = "sqlite" THEN [sqlite EXCEPT ![KeyOf[t]] = v] ELSE sqlite
                /\ calls' = [calls EXCEPT ![c] = IF @.open = {n} THEN Answer(@, @.results)
                                                 ELSE [@ EXCEPT !.open = @ \ {n}]]
    /\ UNCHANGED <<provider, callModel, pipe, errors, restarts>>

-----------------------------------------------------------------------------
(* The models.                                                             *)

\* Without a cache the service is asked, or the model that is loaded.  transformers
\* keeps the promise of its first load, so all calls share its outcome, a failure
\* too; fastembed loads again for every call until a load succeeds.
BeginDirect(c) ==
    /\ calls[c].phase = "begin" /\ ~Cached
    /\ IF provider.kind = "transformers" /\ pipe = "failed"
       THEN calls' = [calls EXCEPT ![c] = Rejected(@, "other")]
       ELSE calls' = [calls EXCEPT ![c].phase = IF Local /\ pipe # "ready" THEN "loading" ELSE "asking",
                                   ![c].results = [n \in DOMAIN calls[c].texts |-> Missing],
                                   ![c].open = DOMAIN calls[c].texts]
    /\ pipe' = IF Local /\ pipe = "no" THEN "loading" ELSE pipe
    /\ UNCHANGED <<provider, callModel, lru, semantic, sqlite, errors, restarts>>

\* All waiters of the one promise go on, or the one caller of fastembed.
Loaded(c) ==
    /\ calls[c].phase = "loading"
    /\ pipe' = "ready"
    /\ calls' = [d \in Callers |-> IF calls[d].phase = "loading" /\ (d = c \/ provider.kind = "transformers")
                                   THEN [calls[d] EXCEPT !.phase = "asking"] ELSE calls[d]]
    /\ UNCHANGED <<provider, callModel, lru, semantic, sqlite, errors, restarts>>

LoadFails(c) ==
    /\ calls[c].phase = "loading"
    /\ errors < MaxErrors /\ errors' = errors + 1
    /\ pipe' = IF provider.kind = "transformers" THEN "failed" ELSE pipe
    /\ calls' = [d \in Callers |-> IF calls[d].phase = "loading" /\ (d = c \/ provider.kind = "transformers")
                                   THEN Rejected(calls[d], "other") ELSE calls[d]]
    /\ UNCHANGED <<provider, callModel, lru, semantic, sqlite, restarts>>

\* Faulty variant: the output is cut every `dimensions' components.
SlicesByDimension(data, count) ==
    [i \in 1..count |-> SubSeq(data, (i - 1) * provider.dimensions + 1, i * provider.dimensions)]

\* transformers computes one array for all texts: its stride is what the model
\* computes, of which the first components are taken.
Slices(data, count) ==
    LET stride == Len(data) \div count
    IN  [i \in 1..count |-> SubSeq(data, (i - 1) * stride + 1, (i - 1) * stride + provider.dimensions)]

\* The vectors of the texts asked for, in their order.  fastembed hands over what
\* its model computes: its `dimensions' is only shown.
Embedded(texts) ==
    LET computed == [i \in DOMAIN texts |-> Computed(texts[i], callModel)]
    IN  CASE provider.kind = "transformers" -> Slices(FlattenSeq(computed), Len(texts))
          [] provider.kind = "fastembed"    -> computed
          [] OTHER                          -> [i \in DOMAIN texts |-> Vector(texts[i], callModel)]

\* embedBatchDirect: an answer, one that is a vector short, or a failure.  With a
\* cache the vectors are put where they were missing and saved.
Ask(c) ==
    /\ calls[c].phase = "asking"
    /\ LET call    == calls[c]
           wanted  == SetToSortSeq(call.open, <)
           vectors == Embedded([i \in DOMAIN wanted |-> call.texts[wanted[i]]])
           at(n)   == CHOOSE i \in DOMAIN wanted : wanted[i] = n
           filled(vs) == [n \in DOMAIN call.texts |->
                            IF n \notin call.open THEN call.results[n]
                            ELSE IF at(n) \in DOMAIN vs THEN vs[at(n)] ELSE Undefined]
           taken(vs)  == IF Cached THEN [call EXCEPT !.phase = "saving", !.results = filled(vs)]
                         ELSE Answer(call, vs)
       IN  \/ calls' = [calls EXCEPT ![c] = taken(vectors)] /\ UNCHANGED errors
           \/ /\ ~Local /\ errors < MaxErrors /\ errors' = errors + 1
              /\ calls' = [calls EXCEPT ![c] = taken(Front(vectors))]
           \/ \E e \in Failures : ErrorOf(c, e)
    /\ UNCHANGED <<provider, callModel, lru, semantic, sqlite, pipe, restarts>>

\* The process ends; the next one may be configured with another model.
RestartProcess ==
    /\ restarts < MaxRestarts /\ restarts' = restarts + 1
    /\ callModel' \in CallModels
    /\ lru' = <<>> /\ semantic' = {} /\ pipe' = "no"
    /\ calls' = [c \in Callers |-> IdleCall]
    /\ UNCHANGED <<provider, sqlite, errors>>

EmbedderNext ==
    \/ \E c \in Callers :
          \/ Call(c) \/ BeginCached(c) \/ BeginDirect(c) \/ LookedUp(c) \/ Save(c)
          \/ Loaded(c) \/ LoadFails(c) \/ Ask(c)
          \/ \E n \in calls[c].open : LookUp(c, n)
    \/ RestartProcess

EmbedderSpec == EmbedderInit /\ [][EmbedderNext]_embedderVars

-----------------------------------------------------------------------------
(* Properties.                                                             *)

EmbedderTypeOK ==
    /\ pipe \in {"no", "loading", "ready", "failed"}
    /\ \A c \in Callers : calls[c].attempt <= MaxRetries /\ calls[c].open \subseteq DOMAIN calls[c].texts

\* What an answer for t may be the vector of: t itself; with a cache a text of the
\* same key; with the semantic strategy a text alike, but never one that is only
\* alike to one that is alike.
StandsFor(s, t) ==
    \/ s = t
    \/ Cached /\ KeyOf[s] = KeyOf[t]
    \/ provider.strategy = "semantic" /\ <<s, t>> \in Alike

\* v holds the first components of what m computes for s: as many as `dimensions'
\* says, except that fastembed takes no notice of it and that the OpenAI embedder
\* does not pass on the default; there they are as many as the model has.
VectorFor(v, s, m) ==
    /\ IsPrefix(v, Computed(s, m))
    /\ Len(v) = IF \/ provider.kind = "fastembed"
                   \/ provider.kind = "openai" /\ provider.dimensions = DefaultDimensions
                THEN Width ELSE provider.dimensions

\* Every text gets its vector, however the calls, the retries, short answers and
\* evictions interleave, with the components VectorFor says (fastembed's are not cut
\* to its `dimensions'), and of the model in use, unless the cache has a file: its
\* keys do not name the model.
OwnVectors ==
    \A c \in Callers :
        calls[c].phase = "done" =>
            /\ Len(calls[c].results) = Len(calls[c].texts)
            /\ \A n \in DOMAIN calls[c].texts :
                 \E s \in CallableTexts, m \in CallModels :
                    /\ VectorFor(calls[c].results[n], s, m)
                    /\ StandsFor(s, calls[c].texts[n])
                    /\ m = callModel \/ provider.persistence = "sqlite"

\* The cache in memory keeps its bound and one entry per key, each computed from a
\* text with that key.
CacheHonest ==
    /\ Len(lru) <= IF MaxEntries = 0 THEN 1 ELSE MaxEntries
    /\ \A i, j \in DOMAIN lru : lru[i].key = lru[j].key => i = j
    /\ \A i \in DOMAIN lru : \E s \in CallableTexts, m \in CallModels :
          KeyOf[s] = lru[i].key /\ VectorFor(lru[i].vector, s, m)

\* The providers answer with the vectors of the texts they were asked for, of the
\* length that reaches the model; the cache keeps what it was given.
EmbeddersSound == EmbedderTypeOK /\ OwnVectors /\ CacheHonest
=============================================================================

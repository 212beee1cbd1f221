---------------------------- MODULE MCComponents ----------------------------
(***************************************************************************)
(* The throttle of the pipeline, the vector stores, the evaluation suite,  *)
(* the quality assessment, the window walk of the chunkers, the embedding  *)
(* providers and the stages used one by one.  They share no state, so a    *)
(* behaviour follows one of them while the others stay where they began.   *)
(***************************************************************************)
EXTENDS Throttle, VectorStores, EvalSuite, Quality, WindowWalk,
        Embedders, MCStaged

MCCounts == {Unset, 0, 1, 3, 8}

MCWatermarks == {<<2, 1>>, <<3, 5>>, <<4, 13>>, <<0, 40>>}

\* Two files; a chunk in two revisions; tags that LIKE cannot tell apart.
MCDocs ==
  {[id |-> "c1", file |-> "f1", rev |-> 1, tags |-> {"a_b"}],
   [id |-> "c2", file |-> "f1", rev |-> 1, tags |-> {}],
   [id |-> "c2", file |-> "f1", rev |-> 2, tags |-> {"a-b"}],
   [id |-> "c3", file |-> "f2", rev |-> 1, tags |-> {"a-b"}]}

MCLikePairs == {<<"a_b", "a-b">>}

\* Three variants that share a run directory; one is skipped.
MCVariants ==
  <<[name |-> "v1", db |-> "d1", pins |-> TRUE, skip |-> FALSE],
    [name |-> "v2", db |-> "d1", pins |-> TRUE, skip |-> TRUE],
    [name |-> "v3", db |-> "d1", pins |-> TRUE, skip |-> FALSE]>>

\* Headings of two levels; short and oversized texts, one in characters of three
\* bytes, and code.
MCNodes ==
  {[type |-> "heading", level |-> 1, title |-> "A"],
   [type |-> "heading", level |-> 2, title |-> "B"],
   [type |-> "text", chars |-> 3, width |-> 1],
   [type |-> "text", chars |-> 13, width |-> 3],
   [type |-> "text", chars |-> 19, width |-> 1],
   [type |-> "code", chars |-> 6, width |-> 1]}

\* Two texts that hash alike, in one batch; three of which the second is alike to
\* both others.
MCCallTexts == {<<"t1", "t2">>, <<"t3">>}
MCKeyOf     == [t1 |-> "k1", t2 |-> "k1", t3 |-> "k2"]
MCAlike     == {<<"t1", "t2">>, <<"t2", "t1">>, <<"t2", "t3">>, <<"t3", "t2">>}

\* The second assessment is without flaws: it is there for the history.
MCMaxFlaws == <<1, 0>>

VARIABLES
  focus       \* the component this behaviour follows

tsVars == <<embedderVars, stagedVars>>
vars   == <<focus, throttleVars, storeVars, suiteVars, qualityVars, walkVars, tsVars>>

Parked ==
  /\ focus # "throttle" => strategy = FixedWorkers(1) /\ spawned = 1
  /\ focus # "stores" => backend = "lanceTs" /\ schema = "absent"
  /\ focus # "embedders" => provider.kind = "fastembed" /\ provider.dimensions = 1 /\ callModel = "m1"
  /\ focus # "staged" => spaceModel = "m1" /\ storeName = "s1"

Init ==
  /\ focus \in {"throttle", "stores", "suite", "quality", "walk", "embedders", "staged"}
  /\ ThrottleInit /\ StoresInit /\ SuiteInit /\ QualityInit /\ WalkInit
  /\ EmbedderInit /\ StagedInit
  /\ Parked

Next ==
  \/ /\ focus = "throttle" /\ Drift
     /\ UNCHANGED <<focus, storeVars, suiteVars, qualityVars, walkVars, tsVars>>
  \/ /\ focus = "stores" /\ StoresNext
     /\ UNCHANGED <<focus, throttleVars, suiteVars, qualityVars, walkVars, tsVars>>
  \/ /\ focus = "suite" /\ SuiteNext
     /\ UNCHANGED <<focus, throttleVars, storeVars, qualityVars, walkVars, tsVars>>
  \/ /\ focus = "quality" /\ QualityNext
     /\ UNCHANGED <<focus, throttleVars, storeVars, suiteVars, walkVars, tsVars>>
  \/ /\ focus = "walk" /\ WalkNext
     /\ UNCHANGED <<focus, throttleVars, storeVars, suiteVars, qualityVars, tsVars>>
  \/ /\ focus = "embedders" /\ EmbedderNext
     /\ UNCHANGED <<focus, throttleVars, storeVars, suiteVars, qualityVars, walkVars, stagedVars>>
  \/ /\ focus = "staged" /\ StagedNext
     /\ UNCHANGED <<focus, throttleVars, storeVars, suiteVars, qualityVars, walkVars, embedderVars>>

Spec == Init /\ [][Next]_vars
=============================================================================

--------------------------- MODULE MCOrchestrator ---------------------------
(***************************************************************************)
(* Small instances of Orchestrator.  Successive versions of file a share a *)
(* chunk; b has one version.                                               *)
(***************************************************************************)
EXTENDS Orchestrator, TLC

TwoFiles == <<"a", "b">>

MCVersions == ("a" :> {"a1", "a2", "a3"}) @@ ("b" :> {"b1"})

MCChunksOf ==
  ("a1" :> <<"x", "y">>) @@ ("a2" :> <<"y", "z">>)
    @@ ("a3" :> <<"z">>) @@ ("b1" :> <<"u">>)

\* The second version of a only drops the first chunk.
ShrunkChunksOf == [MCChunksOf EXCEPT !["a2"] = <<"y">>]

OneModel == {[model |-> "m1", store |-> "lancedb"]}

TwoModels == OneModel \cup {[model |-> "m2", store |-> "lancedb"]}

\* Files change and go; nothing returns to what it was.
Forward ==
  {<<"a", "a1", "a2">>, <<"a", "a2", "a3">>,
   <<"a", "a1", Absent>>, <<"b", "b1", Absent>>}

\* The last change of a is undone.
Revert == {<<"a", "a1", "a2">>, <<"a", "a2", "a1">>}

BothFiles == {("a" :> "a1") @@ ("b" :> "b1")}

=============================================================================

----------------------------- MODULE MCIndexing -----------------------------
(***************************************************************************)
(* Small instances of Indexing.  File a has two versions that share a      *)
(* chunk, file b has one.                                                  *)
(***************************************************************************)
EXTENDS Indexing

BarePaths == [p \in {"a", "b"} |-> p]

MCVersions == [p \in {"a", "b"} |-> IF p = "a" THEN {"a1", "a2"} ELSE {"b1"}]

MCChunksOf ==
  [v \in {"a1", "a2", "b1"} |-> CASE v = "a1" -> {"x", "y"}
                                  [] v = "a2" -> {"x", "z"}
                                  [] v = "b1" -> {"u", "v"}]

BothFiles == {[p \in {"a", "b"} |-> IF p = "a" THEN "a1" ELSE "b1"]}

OneFile == {[p \in {"a", "b"} |-> IF p = "a" THEN "a1" ELSE Absent]}

=============================================================================

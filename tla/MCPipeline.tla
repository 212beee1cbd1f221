----------------------------- MODULE MCPipeline -----------------------------
(***************************************************************************)
(* Small instances of Pipeline.  Two workers, one channel slot per worker, *)
(* micro-batches of two chunks (one under memory pressure) and upserts of  *)
(* two documents, so that both channels fill, files span several           *)
(* micro-batches and batches mix files.                                    *)
(***************************************************************************)
EXTENDS Pipeline, TLC

\* Files a (two chunks), b (shares a chunk with a), e and f (empty), one
\* source: one file more than the channel and one worker hold.
MCPath == <<"a", "b", "e", "f">>

MCKey == MCPath

MCChunks == <<<<"x", "y">>, <<"x">>, <<>>, <<>>>>

MCRev == [k \in {"a", "b", "e", "f"} |-> "r1"]

NoRows == [c \in Ids |-> NoRow]

\* A first run, and a run after file `old` (row w) was removed and b kept.
MCStarts ==
  {[known |-> <<>>, rows |-> NoRows],
   [known |-> ("old" :> "r0") @@ [k \in {"b", "f"} |-> "r1"],
    rows |-> [NoRows EXCEPT !["w"] = [src |-> "old", rev |-> "r0"],
                            !["x"] = [src |-> "b", rev |-> "r1"]]]}

MCStrategy == WithWatermarks(WithSource(2), 1, 4)

=============================================================================

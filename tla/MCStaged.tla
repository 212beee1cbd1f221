------------------------------ MODULE MCStaged ------------------------------
(***************************************************************************)
(* Files for StagedRun.                                                    *)
(***************************************************************************)
EXTENDS StagedRun

\* Revisions that share a text, and a text that moves to the other file; "c" is too
\* long for a batch.
MCContents ==
  (<<"f1", 1>> :> <<"a", "b">>) @@ (<<"f1", 2>> :> <<"a", "c">>)
    @@ (<<"f2", 1>> :> <<"d">>) @@ (<<"f2", 2>> :> <<"d", "b">>)

\* Two revisions of one file that share nothing.
SweepContents == (<<"f1", 1>> :> <<"a", "b">>) @@ (<<"f1", 2>> :> <<"c", "d">>)

MCChars == [a |-> 2, b |-> 1, c |-> 3, d |-> 1]
=============================================================================
